---- MODULE Spec2Model ----
(***************************************************************************)
(* A model of the scraper_monitoring package: the operation trackers of    *)
(* context.py and decorators.py, the health registry of health.py, and the *)
(* default instances of logger.py and metrics.py.                          *)
(*                                                                         *)
(* The specifications of this module share its variables:                  *)
(*   Spec        the operation trackers (blocks and decorators);           *)
(*   SpecHealth  the health registry, its listener and its HTTP handler;   *)
(*   SpecRollup  the status rollup of run_checks as a pure function;       *)
(*   SpecNested  a tracked unit of work whose body makes tracked calls;    *)
(*   SpecSinks   the identity labels of the records, a config that is      *)
(*               mutated, and a metric sink that rejects its labels;       *)
(*   SpecThreads the health registry with its calls made by threads, one   *)
(*               bytecode-level step at a time;                            *)
(*   SpecClock   the clock readings a tracker computes its duration from;  *)
(*   SpecStop    stop_server called by several threads;                    *)
(*   SpecHandling  the with_error_handling decorator;                      *)
(*   SpecScope   a ScrapingContext used as a with-block;                   *)
(*   SpecDefaults  the process-wide default logger and metrics.            *)
(* Python strings that the code parses (URLs) are sequences of one         *)
(* character strings; all other strings are TLA+ strings.                  *)
(***************************************************************************)
EXTENDS Integers, Sequences, FiniteSets, TLC

VARIABLES
    stack,      \* tracked invocations in progress, innermost last
    last,       \* the tracked invocation that completed most recently
    outer,      \* SpecNested: the invocation whose body makes the calls of stack
    config,     \* the MonitoringConfig object of the context, as it is now
    opLogger,   \* SpecSinks: identity labels bound to the logger of the invocation
    emitted,    \* SpecSinks: identity labels carried by each record of the invocation
    checks,     \* HealthChecker.checks
    server,     \* HealthChecker.server and whether serve_forever runs
    mainPc,     \* the caller thread: "ready", or "blocked" inside a call
    ctxLog,     \* message of the latest record of the context logger
    hcall,      \* the health API call made most recently
    report,     \* what the latest run_checks call returned
    response,   \* what the latest GET was answered
    sampler,    \* whether the sampler thread set the gauges since the latest call
    aggIn,      \* SpecRollup: a sequence of per-check statuses
    aggOut,     \* SpecRollup: the rollup computed from aggIn
    heap,       \* SpecThreads: the HealthCheck objects and the list objects that hold them
    thr,        \* SpecThreads: where each thread is in the call it is making
    hist,       \* SpecThreads: the names add_check returned for, remove_check was called with
    clock,      \* SpecClock: what time.time() returns, and the time that has passed
    timed,      \* SpecClock: the start_time and the duration of a tracked invocation
    handled,    \* SpecHandling: a call of a function decorated with with_error_handling
    scope,      \* SpecScope: a ScrapingContext used as a with-block
    defaults    \* SpecDefaults: the module globals _default_logger and _default_metrics

trackerVars == <<stack, last>>
healthVars  == <<checks, server, mainPc, ctxLog, hcall, report, response, sampler>>
rollupVars  == <<aggIn, aggOut>>
nestVars    == <<outer>>
sinkVars    == <<config, opLogger, emitted>>
threadVars  == <<heap, thr, hist>>
clockVars   == <<clock, timed>>
apiVars     == <<handled, scope, defaults>>
vars == <<stack, last, outer, config, opLogger, emitted, checks, server, mainPc, ctxLog, hcall, report, response,
          sampler, aggIn, aggOut, heap, thr, hist, clock, timed, handled, scope, defaults>>

(***************************************************************************)
(* Bounds.                                                                 *)
(***************************************************************************)
MaxDepth == 1       \* tracked invocations nested inside one another
MaxCustom == 2      \* health checks registered through add_check
MaxStatuses == 4    \* length of a status sequence given to the rollup

(***************************************************************************)
(* Python values.                                                          *)
(***************************************************************************)
Str(s) == [t |-> "str", s |-> s]
NonStr == [t |-> "int", s |-> <<"4", "2">>]     \* a truthy non-string, 42
Absent == [t |-> "absent", s |-> <<>>]          \* the argument is not passed

\* bool(v) of a string or of 42
Truthy(v) == v.t = "int" \/ (v.t = "str" /\ v.s # <<>>)

EmptyUrl    == <<>>
GoodUrl     == <<"h","t","t","p","s",":","/","/","e","x","a","m","p","l","e",
                 ".","c","o","m","/","p","a","t","h">>
BareUrl     == <<"e","x","a","m","p","l","e",".","c","o","m","/","p","a","t","h">>
BracketUrl  == <<"h","t","t","p",":","/","/","[",":",":","1">>
ExampleCom  == <<"e","x","a","m","p","l","e",".","c","o","m">>
Unknown     == <<"u","n","k","n","o","w","n">>

Letters == {"a","b","c","d","e","f","g","h","i","j","k","l","m","n","o","p",
            "q","r","s","t","u","v","w","x","y","z"}
Digits == {"0","1","2","3","4","5","6","7","8","9"}
SchemeChars == Letters \cup Digits \cup {"+", "-", "."}

\* str.find over a set of characters, from position i; 0 when none is found
RECURSIVE FindFrom(_, _, _)
FindFrom(s, cs, i) ==
    IF i > Len(s) THEN 0
    ELSE IF s[i] \in cs THEN i
    ELSE FindFrom(s, cs, i + 1)

\* urlsplit: the url with its scheme, if it has one, cut off
AfterScheme(url) ==
    LET i == FindFrom(url, {":"}, 1)
    IN  IF i > 1 /\ url[1] \in Letters /\ \A j \in 1..(i - 1) : url[j] \in SchemeChars
        THEN SubSeq(url, i + 1, Len(url))
        ELSE url

\* urlparse(url).netloc of a str: ok is FALSE when urlparse raises ValueError
Netloc(url) ==
    LET rest == AfterScheme(url)
        slashes == Len(rest) >= 2 /\ rest[1] = "/" /\ rest[2] = "/"
        delim == FindFrom(rest, {"/", "?", "#"}, 3)
        loc == IF ~slashes THEN <<>>
               ELSE IF delim = 0 THEN SubSeq(rest, 3, Len(rest))
               ELSE SubSeq(rest, 3, delim - 1)
        open == \E j \in 1..Len(loc) : loc[j] = "["
        close == \E j \in 1..Len(loc) : loc[j] = "]"
    IN  [ok |-> open = close, netloc |-> loc]

(***************************************************************************)
(* Exceptions and the outcome of a call.                                   *)
(***************************************************************************)
Exc(cls, msg) == [cls |-> cls, msg |-> msg]
NoExc == Exc("-", "-")

\* isinstance(e, Exception): what `except Exception` catches
IsException(e) == e.cls \notin {"KeyboardInterrupt", "GeneratorExit", "SystemExit"}

\* what a unit of work may raise
BodyExcs == {Exc("ValueError", "boom"), Exc("ValueError", ""),
             Exc("KeyboardInterrupt", ""), Exc("GeneratorExit", "")}

Result(t, k, n) == [t |-> t, k |-> k, n |-> n]
RNone == Result("None", "-", 0)

\* what a unit of work may return
Results == {RNone,
            Result("list", "-", 0), Result("list", "-", 3),
            Result("dict", "items_list", 2),      \* {'items': [a, b]}
            Result("dict", "items_int", 5),       \* {'items': 5}
            Result("dict", "-", 0),               \* {}
            Result("str", "-", 0),                \* ''
            Result("dict", "status_code", 404),   \* {'status_code': 404}
            Result("obj", "-", 1),                \* an object, e.g. 42
            Result("obj", "status_code", 404),    \* response.status_code = 404
            Result("obj", "status_code_none", 0)} \* response.status_code = None

Returned(v) == [t |-> "return", v |-> v, exc |-> NoExc]
Raised(e)   == [t |-> "raise", v |-> RNone, exc |-> e]
NoOutcome   == [t |-> "none", v |-> RNone, exc |-> NoExc]

(***************************************************************************)
(* What the log sink and the metric sink are given.                        *)
(***************************************************************************)
Ev(k, s, d, e, m, o, n) == [k |-> k, s |-> s, d |-> d, e |-> e, m |-> m, o |-> o, n |-> n]

\* a log record: s is the event, e and m the error_type and error fields
LogEv(s, e, m) == Ev("log", s, <<>>, e, m, "-", 0)

\* a log record that also carries a duration (duration_seconds, or the
\* response_time_ms of log_page_load)
TimedLogEv(s, e, m) == Ev("log", s, <<>>, e, m, "duration", 0)

\* ScraperMetrics.record_scrape_request
record_scrape_request(operation, status, url_domain) ==
    Ev("req", status, url_domain, "-", "-", operation, 1)

\* ScraperMetrics.record_scrape_duration
record_scrape_duration(operation, url_domain) ==
    Ev("dur", "-", url_domain, "-", "-", operation, 1)

\* ScraperMetrics.record_items_scraped
record_items_scraped(operation, count) ==
    Ev("items", "-", <<>>, "-", "-", operation, count)

\* ScraperMetrics.record_http_request
record_http_request(status_code, url_domain) ==
    Ev("http_req", status_code, url_domain, "-", "-", "-", 1)

\* ScraperMetrics.record_http_response_time
record_http_response_time(url_domain) ==
    Ev("http_dur", "-", url_domain, "-", "-", "-", 1)

\* ScraperMetrics.record_error
record_error(error_type, operation) ==
    Ev("err", "-", <<>>, error_type, "-", operation, 1)

(***************************************************************************)
(* The operation trackers.  A frame is one tracked invocation: what it was *)
(* called with (args: the keyword url and the second positional argument   *)
(* of a decorated call), what it has given the sinks so far (rec), how     *)
(* often the                                                               *)
(* wrapped unit of work was invoked (ran), how the unit ended (body) and   *)
(* what the caller of the tracker received (caller).                       *)
(***************************************************************************)
Frame(form, args, url, domain, lg, mt, rec, ran, body, caller) ==
    [form |-> form, args |-> args, url |-> url, domain |-> domain, lg |-> lg,
     mt |-> mt, rec |-> rec, ran |-> ran, body |-> body, caller |-> caller]

\* a block has no *args to recover a url from
NoArgs == <<Absent, Absent>>

NoCall == Frame("none", NoArgs, Absent, <<>>, FALSE, FALSE, <<>>, 0, NoOutcome, NoOutcome)

\* operation_name of the scrape trackers
Operation == "scrape"

\* the url argument of a block, and the keyword and second positional
\* argument of a decorated call
BlockUrls == {Str(EmptyUrl), Str(GoodUrl), Str(BareUrl), Str(BracketUrl), NonStr}
KwUrls == {Absent, Str(EmptyUrl), Str(GoodUrl)}
PosUrls == {Absent, Str(EmptyUrl), Str(GoodUrl), Str(BareUrl), Str(BracketUrl), NonStr}

\* the item_type argument of a scrape_operation block
ItemTypes == {"item", "product"}

\* **context of a block: nothing, a key of its own, or the key url_domain
Contexts == {"none", "extra", "url_domain"}

\* url_domain = urlparse(url).netloc if url else 'unknown'
url_domain_of(url) ==
    IF ~Truthy(url) THEN [ok |-> TRUE, d |-> Unknown, exc |-> NoExc]
    ELSE IF url.t # "str"
    THEN [ok |-> FALSE, d |-> <<>>,
          exc |-> Exc("AttributeError", "'int' object has no attribute 'decode'")]
    ELSE IF Netloc(url.s).ok
    THEN [ok |-> TRUE, d |-> Netloc(url.s).netloc, exc |-> NoExc]
    ELSE [ok |-> FALSE, d |-> <<>>, exc |-> Exc("ValueError", "Invalid IPv6 URL")]

\* url = kwargs.get('url', '') or (args[1] if len(args) > 1 else '')
recovered_url(kw, pos) ==
    IF kw.t # "absent" /\ Truthy(kw) THEN kw
    ELSE IF pos.t # "absent" THEN pos
    ELSE Str(EmptyUrl)

\* self.logger.bind(..., url_domain=url_domain, **context)
bind_raises(ctx) == ctx = "url_domain"
BindError == Exc("TypeError", "got multiple values for keyword argument 'url_domain'")

\* the invocation on top of the stack
Top == stack[Len(stack)]
Pop == SubSeq(stack, 1, Len(stack) - 1)

\* a tracker that raises before the unit of work is invoked
entry_fails(form, args, url, lg, mt, e) ==
    /\ last' = Frame(form, args, url, <<>>, lg, mt, <<>>, 0, NoOutcome, Raised(e))
    /\ UNCHANGED stack
    /\ UNCHANGED <<healthVars, rollupVars, nestVars, sinkVars, threadVars, clockVars, apiVars>>

entry_succeeds(form, args, url, domain, lg, mt, rec) ==
    /\ stack' = Append(stack, Frame(form, args, url, domain, lg, mt, rec, 1,
                                     NoOutcome, NoOutcome))
    /\ last' = NoCall
    /\ UNCHANGED <<healthVars, rollupVars, nestVars, sinkVars, threadVars, clockVars, apiVars>>

\* ScrapingContext.scrape_operation up to its yield; item_type is a
\* parameter the body of scrape_operation never reads
scrape_operation_enter(url, item_type, ctx) ==
    /\ Len(stack) < MaxDepth /\ last = NoCall
    /\ LET dom == url_domain_of(url)
       IN  IF ~dom.ok THEN entry_fails("scrape_operation", NoArgs, url, TRUE, TRUE, dom.exc)
           ELSE IF bind_raises(ctx)
           THEN entry_fails("scrape_operation", NoArgs, url, TRUE, TRUE, BindError)
           ELSE entry_succeeds("scrape_operation", NoArgs, url, dom.d, TRUE, TRUE,
                               <<LogEv("started", "-", "-")>>)

\* ScrapingContext.page_request up to its yield
page_request_enter(url, ctx) ==
    /\ Len(stack) < MaxDepth /\ last = NoCall
    /\ LET dom == url_domain_of(url)
       IN  IF ~dom.ok THEN entry_fails("page_request", NoArgs, url, TRUE, TRUE, dom.exc)
           ELSE IF bind_raises(ctx)
           THEN entry_fails("page_request", NoArgs, url, TRUE, TRUE, BindError)
           ELSE entry_succeeds("page_request", NoArgs, url, dom.d, TRUE, TRUE,
                               <<LogEv("http_started", "-", "-")>>)

\* track_scrape_operation's wrapper up to the call of func
track_scrape_operation_call(kw, pos, lg, mt) ==
    /\ Len(stack) < MaxDepth /\ last = NoCall
    /\ LET url == recovered_url(kw, pos)
           dom == url_domain_of(url)
       IN  IF ~dom.ok THEN entry_fails("track_scrape_operation", <<kw, pos>>, url, lg, mt, dom.exc)
           ELSE entry_succeeds("track_scrape_operation", <<kw, pos>>, url, dom.d, lg, mt,
                               IF lg THEN <<LogEv("started", "-", "-")>> ELSE <<>>)

\* track_page_scrape's wrapper up to the call of func
track_page_scrape_call(kw, pos, lg, mt) ==
    /\ Len(stack) < MaxDepth /\ last = NoCall
    /\ LET url == recovered_url(kw, pos)
           dom == url_domain_of(url)
       IN  IF ~dom.ok THEN entry_fails("track_page_scrape", <<kw, pos>>, url, lg, mt, dom.exc)
           ELSE entry_succeeds("track_page_scrape", <<kw, pos>>, url, dom.d, lg, mt, <<>>)

\* items_count of track_scrape_operation; ok is FALSE when len() raises
items_count(result) ==
    IF result.t = "list" THEN [ok |-> TRUE, n |-> result.n]
    ELSE IF result.t = "dict" /\ result.k = "items_list" THEN [ok |-> TRUE, n |-> result.n]
    ELSE IF result.t = "dict" /\ result.k = "items_int" THEN [ok |-> FALSE, n |-> 0]
    ELSE IF result.t # "None" THEN [ok |-> TRUE, n |-> 1]
    ELSE [ok |-> TRUE, n |-> 0]
LenError == Exc("TypeError", "object of type 'int' has no len()")

\* status_code of track_page_scrape, as the string str() makes of it
status_code_of(result) ==
    IF result.t = "obj" /\ result.k = "status_code" THEN "404"
    ELSE IF result.t = "obj" /\ result.k = "status_code_none" THEN "None"
    ELSE IF result.t = "dict" /\ result.k = "status_code" THEN "404"
    ELSE "200"
IntError == Exc("ValueError", "invalid literal for int() with base 10: 'None'")

Exit(rec, caller) == [rec |-> rec, caller |-> caller]

\* the except branch of scrape_operation
scrape_operation_failed(f, e) ==
    Exit(f.rec \o <<TimedLogEv("failed", e.cls, e.msg),
                    record_scrape_request(Operation, "failed", f.domain),
                    record_scrape_duration(Operation, f.domain),
                    record_error(e.cls, Operation)>>,
         Raised(e))

\* a scrape_operation that forgets the duration of a successful block
scrape_operation_exit_noduration(f, out) ==
    IF out.t = "return"
    THEN Exit(f.rec \o <<TimedLogEv("success", "-", "-"),
                         record_scrape_request(Operation, "success", f.domain)>>,
              Returned(out.v))
    ELSE IF IsException(out.exc) THEN scrape_operation_failed(f, out.exc)
    ELSE Exit(f.rec, Raised(out.exc))

\* a scrape_operation that counts the block as one scraped item
scrape_operation_exit_counts_item(f, out) ==
    IF out.t = "return"
    THEN Exit(f.rec \o <<TimedLogEv("success", "-", "-"),
                         record_scrape_request(Operation, "success", f.domain),
                         record_scrape_duration(Operation, f.domain),
                         record_items_scraped(Operation, 1)>>,
              Returned(out.v))
    ELSE IF IsException(out.exc) THEN scrape_operation_failed(f, out.exc)
    ELSE Exit(f.rec, Raised(out.exc))

\* ScrapingContext.scrape_operation from its yield on
scrape_operation_exit(f, out) ==
    IF out.t = "return"
    THEN Exit(f.rec \o <<TimedLogEv("success", "-", "-"),
                         record_scrape_request(Operation, "success", f.domain),
                         record_scrape_duration(Operation, f.domain)>>,
              Returned(out.v))
    ELSE IF IsException(out.exc) THEN scrape_operation_failed(f, out.exc)
    ELSE Exit(f.rec, Raised(out.exc))

\* the except branch of page_request
page_request_failed(f, e) ==
    Exit(f.rec \o <<TimedLogEv("http_failed", e.cls, e.msg),
                    record_http_request("500", f.domain),
                    record_http_response_time(f.domain),
                    record_error(e.cls, "http_request")>>,
         Raised(e))

\* ScrapingContext.page_request from its yield on
page_request_exit(f, out) ==
    IF out.t = "return"
    THEN Exit(f.rec \o <<record_http_request("200", f.domain),
                         record_http_response_time(f.domain)>>,
              Returned(out.v))
    ELSE IF IsException(out.exc) THEN page_request_failed(f, out.exc)
    ELSE Exit(f.rec, Raised(out.exc))

\* the except branch of track_scrape_operation's wrapper
track_scrape_operation_failed(f, e) ==
    Exit(f.rec
           \o (IF f.lg THEN <<LogEv("failed", "-", e.msg)>> ELSE <<>>)
           \o (IF f.mt THEN <<record_scrape_request(Operation, "failed", f.domain),
                              record_scrape_duration(Operation, f.domain),
                              record_error(e.cls, Operation)>>
               ELSE <<>>),
         Raised(e))

\* track_scrape_operation's wrapper once func has returned or raised
track_scrape_operation_exit(f, out) ==
    IF out.t = "return"
    THEN LET count == items_count(out.v)
         IN  IF ~count.ok THEN track_scrape_operation_failed(f, LenError)
             ELSE Exit(f.rec
                         \o (IF f.lg THEN <<LogEv("success", "-", "-")>> ELSE <<>>)
                         \o (IF f.mt
                             THEN <<record_scrape_request(Operation, "success", f.domain),
                                    record_scrape_duration(Operation, f.domain)>>
                             ELSE <<>>)
                         \o (IF f.mt /\ count.n > 0
                             THEN <<record_items_scraped(Operation, count.n)>>
                             ELSE <<>>),
                       Returned(out.v))
    ELSE IF IsException(out.exc) THEN track_scrape_operation_failed(f, out.exc)
    ELSE Exit(f.rec, Raised(out.exc))

\* the except branch of track_page_scrape's wrapper
track_page_scrape_failed(f, e) ==
    Exit(f.rec \o (IF f.mt THEN <<record_http_request("500", f.domain),
                                  record_http_response_time(f.domain),
                                  record_error(e.cls, "page_scrape")>>
                   ELSE <<>>),
         Raised(e))

\* track_page_scrape's wrapper once func has returned or raised
track_page_scrape_exit(f, out) ==
    IF out.t = "return"
    THEN LET status_code == status_code_of(out.v)
         IN  IF f.lg /\ status_code = "None" THEN track_page_scrape_failed(f, IntError)
             ELSE Exit(f.rec
                         \o (IF f.lg THEN <<TimedLogEv("page_loaded", "-", "-")>> ELSE <<>>)
                         \o (IF f.mt THEN <<record_http_request(status_code, f.domain),
                                            record_http_response_time(f.domain)>>
                             ELSE <<>>),
                       Returned(out.v))
    ELSE IF IsException(out.exc) THEN track_page_scrape_failed(f, out.exc)
    ELSE Exit(f.rec, Raised(out.exc))

\* the tracker of frame f after its unit of work ended with out
tracker_exit(f, out) ==
    CASE f.form = "scrape_operation" -> scrape_operation_exit(f, out)
      [] f.form = "page_request" -> page_request_exit(f, out)
      [] f.form = "track_scrape_operation" -> track_scrape_operation_exit(f, out)
      [] f.form = "track_page_scrape" -> track_page_scrape_exit(f, out)

IsBlock(f) == f.form \in {"scrape_operation", "page_request"}

complete(out) ==
    LET x == tracker_exit(Top, out)
    IN  /\ last' = [Top EXCEPT !.rec = x.rec, !.body = out, !.caller = x.caller]
        /\ stack' = Pop
        /\ UNCHANGED <<healthVars, rollupVars, nestVars, sinkVars, threadVars, clockVars, apiVars>>

\* the unit of work of the innermost invocation ends normally: a block is
\* left, a decorated function returns result
body_returns(result) ==
    /\ stack # <<>> /\ last = NoCall
    /\ IsBlock(Top) => result = RNone
    /\ complete(Returned(result))

\* the unit of work of the innermost invocation raises e (GeneratorExit is
\* what the body of a block gets when the generator hosting it is closed)
body_raises(e) ==
    /\ stack # <<>> /\ last = NoCall
    /\ complete(Raised(e))

\* the caller of the invocation that completed has taken its outcome; the
\* next step of the program is made after that
outcome_taken ==
    /\ last # NoCall
    /\ last' = NoCall
    /\ UNCHANGED <<stack, healthVars, rollupVars, nestVars, sinkVars, threadVars, clockVars, apiVars>>

(***************************************************************************)
(* The health registry.                                                    *)
(***************************************************************************)
HEALTHY == "healthy"
UNHEALTHY == "unhealthy"
DEGRADED == "degraded"

\* HealthCheck.__init__.  The fields last_check_time, last_status and
\* last_error, which HealthCheck.run writes and nothing in the package
\* reads, are not part of this record: HealthCheckObject has them, and
\* SpecThreads follows them.
HealthCheck(name, kind) == [name |-> name, kind |-> kind]

DefaultNames == <<"cpu_usage", "memory_usage", "disk_space">>
\* the names add_check and remove_check are called with
AddNames == {"x"}
RemoveNames == {"x", "cpu_usage"}

\* what one invocation of a check function does: it returns a value or
\* raises; the default checks return the bool of a comparison
CheckReturned(v) == [t |-> "return", v |-> v, exc |-> NoExc]
CheckRaised(e) == [t |-> "raise", v |-> "-", exc |-> e]
DefaultOutcomes == {CheckReturned("True"), CheckReturned("False")}
CustomOutcomes == DefaultOutcomes \cup
    {CheckReturned("degraded"),             \* returns HealthStatus.DEGRADED
     CheckRaised(Exc("RuntimeError", "boom")),
     CheckRaised(Exc("RuntimeError", "")),  \* raise RuntimeError()
     CheckRaised(Exc("SystemExit", ""))}

\* bool(result) of what a check function returned
CheckTruthy(v) == v # "False"

\* one outcome for every registered check
RECURSIVE OutcomeSeqs(_)
OutcomeSeqs(cs) ==
    IF cs = <<>> THEN {<<>>}
    ELSE {<<o>> \o rest :
            o \in (IF Head(cs).kind = "default" THEN DefaultOutcomes ELSE CustomOutcomes),
            rest \in OutcomeSeqs(Tail(cs))}

HealthResult(name, status, error) == [name |-> name, status |-> status, error |-> error]

\* HealthCheck.run with the check function doing out: the result, or the
\* exception that `except Exception` does not catch
HealthCheck_run(check, out) ==
    LET status == IF out.t = "return" /\ CheckTruthy(out.v) THEN HEALTHY ELSE UNHEALTHY
        error == IF out.t = "return" THEN "None" ELSE out.exc.msg
    IN  IF out.t = "raise" /\ ~IsException(out.exc)
        THEN [result |-> HealthResult("-", "-", "-"), raised |-> out.exc]
        ELSE [result |-> HealthResult(check.name, status, error), raised |-> NoExc]

\* a rollup that takes the status of the latest check that is not healthy
rollup_step_latest(overall, status) ==
    IF status = UNHEALTHY THEN UNHEALTHY
    ELSE IF status = DEGRADED THEN DEGRADED
    ELSE overall

\* run_checks: the body of the loop that sets overall_status
rollup_step(overall, status) ==
    IF status = UNHEALTHY THEN UNHEALTHY
    ELSE IF status = DEGRADED /\ overall = HEALTHY THEN DEGRADED
    ELSE overall

\* what a run_checks call gives its caller: the report it returns (status
\* and checks), or the exception that ends it (raised), and the outcomes
\* of the check functions it invoked
RunResult(status, results, raised, invoked) ==
    [status |-> status, checks |-> results, raised |-> raised, invoked |-> invoked]
NoReport == RunResult("none", <<>>, NoExc, <<>>)

\* run_checks from check i on
RECURSIVE run_loop(_, _, _, _, _)
run_loop(cs, outs, i, results, overall) ==
    IF i > Len(cs) THEN RunResult(overall, results, NoExc, outs)
    ELSE LET r == HealthCheck_run(cs[i], outs[i])
         IN  IF r.raised # NoExc
             THEN RunResult("none", <<>>, r.raised, SubSeq(outs, 1, i))
             ELSE run_loop(cs, outs, i + 1, Append(results, r.result),
                           rollup_step(overall, r.result.status))

\* HealthChecker.run_checks
run_checks_of(cs, outs) == run_loop(cs, outs, 1, <<>>, HEALTHY)

\* a remove_check that removes the first check of that name only
RECURSIVE without_first(_, _)
without_first(cs, name) ==
    IF cs = <<>> THEN <<>>
    ELSE IF Head(cs).name = name THEN Tail(cs)
    ELSE <<Head(cs)>> \o without_first(Tail(cs), name)

\* [check for check in self.checks if check.name != name]
without(cs, name) == SelectSeq(cs, LAMBDA c : c.name # name)

\* a handler that answers 200 whatever the status
http_status_always_ok(status) == 200

\* do_GET: the HTTP status of /health
http_status(status) ==
    IF status = HEALTHY THEN 200
    ELSE IF status = DEGRADED THEN 200
    ELSE 503

NoResponse == [path |-> "-", code |-> 0, body |-> NoReport, text |-> "-"]
\* (for __init__ and start_server, name is what the start of the listener met)
HCall(op, name, n) == [op |-> op, name |-> name, n |-> n]

\* what start_server may meet: the listener binds and its thread starts,
\* HTTPServer() raises (the port is taken), or Thread.start() raises
StartOutcomes == {"ok", "bind_fails", "thread_fails"}

\* self.server after a start_server that found it None: "serving" while
\* serve_forever runs, "bound" for a server no thread serves
started(outcome) ==
    CASE outcome = "ok" -> "serving"
      [] outcome = "bind_fails" -> "None"
      [] outcome = "thread_fails" -> "bound"

HealthIdle ==
    /\ checks = <<>>
    /\ server = "None"
    /\ mainPc = "ready"
    /\ ctxLog = "-"
    /\ hcall = HCall("none", "-", 0)
    /\ report = NoReport
    /\ response = NoResponse
    /\ sampler = "idle"

RollupIdle ==
    /\ aggIn = <<>>
    /\ aggOut = "none"

\* a HealthCheck object with the fields HealthCheck.run writes, and the
\* objects in existence: objs are the HealthCheck objects in the order of
\* their construction, lists the list objects that hold them (by their
\* index in objs), cur the list that self.checks refers to
HealthCheckObject(name, kind, last_check_time, last_status, last_error) ==
    [name |-> name, kind |-> kind, last_check_time |-> last_check_time,
     last_status |-> last_status, last_error |-> last_error]
Heap(objs, lists, cur) == [objs |-> objs, lists |-> lists, cur |-> cur]
NoHeap == Heap(<<>>, <<>>, 0)

\* a call a thread is making: pc is where the thread is in it, ref the
\* list object it loaded from self.checks, idx the position of its
\* iterator in that list, obj the HealthCheck it constructed, acc the list
\* it is building, outs what the check functions it invoked did
ThreadCall(op, name, pc, ref, idx, obj, acc, outs, overall) ==
    [op |-> op, name |-> name, pc |-> pc, ref |-> ref, idx |-> idx, obj |-> obj,
     acc |-> acc, outs |-> outs, overall |-> overall]
NoThreadCall == ThreadCall("none", "-", "idle", 0, 0, 0, <<>>, <<>>, "-")

Callers == {"t1", "t2"}
Listener == "srv"
Threads == Callers \cup {Listener}

\* what the calls made so far have done: the names add_check returned for,
\* the names remove_check was called with, the names the run in progress
\* must report, the number of calls, and the values self.checks has had
\* since the run in progress (or the last run) started
History(added, removed, must, calls, snaps) ==
    [added |-> added, removed |-> removed, must |-> must, calls |-> calls,
     snaps |-> snaps]

ThreadsIdle ==
    /\ heap = NoHeap
    /\ thr = [t \in Threads |-> NoThreadCall]
    /\ hist = History({}, {}, {}, 0, {})

\* a reading of the clocks, and the clock readings of one tracked invocation
Clock(wall, elapsed) == [wall |-> wall, elapsed |-> elapsed]
Timed(form, pc, start_time, entered, duration, left) ==
    [form |-> form, pc |-> pc, start_time |-> start_time, entered |-> entered,
     duration |-> duration, left |-> left]
NoTimed == Timed("none", "idle", 0, 0, 0, 0)

ClockIdle ==
    /\ clock = Clock(0, 0)
    /\ timed = NoTimed

\* a call of a function that with_error_handling decorates: the arguments
\* of the decorator, where the call is, what it gave the sinks (rec), what
\* func did (body) and what the caller of the wrapper received (caller)
Handled(error_types, lg, mt, reraise, pc, rec, body, caller) ==
    [error_types |-> error_types, lg |-> lg, mt |-> mt, reraise |-> reraise,
     pc |-> pc, rec |-> rec, body |-> body, caller |-> caller]
NoHandled == Handled({}, FALSE, FALSE, FALSE, "idle", <<>>, NoOutcome, NoOutcome)

\* a ScrapingContext as a with-block: where the block is, how its body
\* ended, the records of the context logger since __enter__, the number of
\* shutdown calls, and what the with statement gave its surroundings
Scope(pc, body, rec, shutdowns, caller) ==
    [pc |-> pc, body |-> body, rec |-> rec, shutdowns |-> shutdowns, caller |-> caller]
NoScope == Scope("idle", NoOutcome, <<>>, 0, NoOutcome)

\* the module globals _default_logger and _default_metrics (0 is None, n
\* the n-th object constructed), and the objects constructed so far
Defaults(logger, metrics, loggers, registries) ==
    [logger |-> logger, metrics |-> metrics, loggers |-> loggers,
     registries |-> registries]

ApiIdle ==
    /\ handled = NoHandled
    /\ scope = NoScope
    /\ defaults = Defaults(0, 0, 0, 0)

(***************************************************************************)
(* Spec: the operation trackers.                                           *)
(***************************************************************************)
\* MonitoringConfig as far as get_base_labels reads it: scraper_name
\* (scraper_version and environment are read the same way) and the keys
\* of custom_labels
MonitoringConfig(scraper_name, custom_labels) ==
    [scraper_name |-> scraper_name, custom_labels |-> custom_labels]

\* the config the context was constructed with, and what its fields may
\* be assigned later
ConfigAtInit == MonitoringConfig("default_scraper", <<>>)
Configs == {MonitoringConfig(n, c) : n \in {"default_scraper", "renamed"},
                                      c \in {<<>>, <<"team">>}}

\* MonitoringConfig.get_base_labels
get_base_labels(c) == [scraper_name |-> c.scraper_name, custom_labels |-> c.custom_labels]

TrackerInit ==
    /\ stack = <<>>
    /\ last = NoCall
    /\ outer = NoCall
    /\ config = ConfigAtInit
    /\ opLogger = get_base_labels(ConfigAtInit)
    /\ emitted = <<>>

Init ==
    /\ TrackerInit
    /\ HealthIdle
    /\ RollupIdle
    /\ ThreadsIdle
    /\ ClockIdle
    /\ ApiIdle

Next ==
    \/ \E url \in BlockUrls, item_type \in ItemTypes, ctx \in Contexts :
           scrape_operation_enter(url, item_type, ctx)
    \/ \E url \in BlockUrls, ctx \in Contexts : page_request_enter(url, ctx)
    \/ \E kw \in KwUrls, pos \in PosUrls, lg \in BOOLEAN, mt \in BOOLEAN :
           track_scrape_operation_call(kw, pos, lg, mt)
    \/ \E kw \in KwUrls, pos \in PosUrls, lg \in BOOLEAN, mt \in BOOLEAN :
           track_page_scrape_call(kw, pos, lg, mt)
    \/ \E result \in Results : body_returns(result)
    \/ \E e \in BodyExcs : body_raises(e)
    \/ outcome_taken

Spec == Init /\ [][Next]_vars

(***************************************************************************)
(* Claims about the operation trackers, checked under Spec.                *)
(***************************************************************************)
\* how many records of f.rec satisfy a test
NLog(f, s) == Cardinality({i \in DOMAIN f.rec : f.rec[i].k = "log" /\ f.rec[i].s = s})
NKind(f, k) == Cardinality({i \in DOMAIN f.rec : f.rec[i].k = k})
NReq(f, status) ==
    Cardinality({i \in DOMAIN f.rec : /\ f.rec[i].k = "req"
                                      /\ f.rec[i].s = status
                                      /\ f.rec[i].o = Operation
                                      /\ f.rec[i].d = f.domain})
NErr(f, cls, operation) ==
    Cardinality({i \in DOMAIN f.rec : /\ f.rec[i].k = "err"
                                      /\ f.rec[i].e = cls
                                      /\ f.rec[i].o = operation})

C2_FailureRecordedOnce ==
    (last.form = "scrape_operation" /\ last.body.t = "raise") =>
        /\ NLog(last, "failed") = 1
        /\ NLog(last, "success") = 0
        /\ NReq(last, "failed") = 1
        /\ NKind(last, "req") = 1
        /\ NKind(last, "dur") = 1
        /\ NErr(last, last.body.exc.cls, Operation) = 1
        /\ NKind(last, "err") = 1
        /\ last.caller = Raised(last.body.exc)

\* a tracked unit of work in the sense of C3: a scrape_operation block, or
\* a track_scrape_operation call that was given a logger and metrics
IsTrackedUnit(f) ==
    \/ f.form = "scrape_operation"
    \/ f.form = "track_scrape_operation" /\ f.lg /\ f.mt

\* C3: every invocation of a tracked unit of work has emitted, however the
\* unit ended, exactly one 'started' log event and after it exactly one
\* terminal log event (success or failure), exactly one request-outcome
\* increment and exactly one duration observation.
C3_ExactlyOnceHoweverItEnds ==
    (IsTrackedUnit(last) /\ last.ran = 1) =>
        /\ NLog(last, "started") = 1
        /\ last.rec[1] = LogEv("started", "-", "-")
        /\ NLog(last, "success") + NLog(last, "failed") = 1
        /\ NKind(last, "req") = 1
        /\ NKind(last, "dur") = 1

\* C4: the trackers are transparent to control flow: the wrapped unit of
\* work is invoked exactly once per call, and the caller receives what the
\* unit returned, or the exception the unit raised, and never a failure of
\* the tracker's own.
C4_Transparent ==
    last.form # "none" =>
        /\ last.ran = 1
        /\ last.caller = last.body

\* the items-scraped updates among the records of invocation f
ItemsOf(f) == SelectSeq(f.rec, LAMBDA ev : ev.k = "items")

\* the item count the precedence of the claim gives a returned value
ExpectedItems(v) ==
    IF v.t = "list" THEN v.n
    ELSE IF v.t = "dict" /\ v.k = "items_list" THEN v.n
    ELSE IF v.t = "None" \/ (v.t \in {"dict", "str"} /\ v.k = "-" /\ v.n = 0) THEN 0
    ELSE 1

\* C12: after a decorated call whose function returned (a value whose
\* 'items', if it has that key, has a length), track_scrape_operation
\* increments the items-scraped counter by the count of the precedence
\* list/tuple -> length, dict with 'items' -> length of it, other
\* non-empty -> 1, empty or None -> 0: once by that count, not at all when
\* the count is 0, and not at all when the function raised.
C12_ItemCount ==
    (last.form = "track_scrape_operation" /\ last.mt) =>
        /\ (last.body.t = "return" /\ last.body.v # Result("dict", "items_int", 5)) =>
               ItemsOf(last) =
                   IF ExpectedItems(last.body.v) > 0
                   THEN <<record_items_scraped(Operation, ExpectedItems(last.body.v))>>
                   ELSE <<>>
        /\ last.body.t = "raise" => ItemsOf(last) = <<>>

\* the url_domain labels of the metric samples of invocation f
DomainLabels(f) ==
    {f.rec[i].d : i \in {j \in DOMAIN f.rec : f.rec[j].k \in {"req", "dur", "http_req", "http_dur"}}}

\* C13: the trackers derive the authority "example.com" from
\* "https://example.com/path" and the literal "unknown" from the empty
\* string and from every malformed non-empty string, the derivation does
\* not raise, and no url_domain label recorded is the empty string.
C13_UrlAuthority ==
    (last.form # "none" /\ last.url.t = "str") =>
        /\ last.ran = 0 => last.caller.exc = BindError
        /\ (last.ran = 1 /\ last.url.s = GoodUrl) => last.domain = ExampleCom
        /\ (last.ran = 1 /\ last.url.s \in {EmptyUrl, BareUrl, BracketUrl}) =>
               last.domain = Unknown
        /\ <<>> \notin DomainLabels(last)

IsDecorated(f) == f.form \in {"track_scrape_operation", "track_page_scrape"}

\* C14: a decorated call takes its URL from the keyword argument url when
\* that is passed, otherwise from the second positional argument, and
\* otherwise the URL is empty and the authority "unknown"; and the wrapped
\* callable is invoked whatever the arguments are.
C14_UrlRecovery ==
    IsDecorated(last) =>
        /\ last.url = IF last.args[1] # Absent THEN last.args[1]
                      ELSE IF last.args[2] # Absent THEN last.args[2]
                      ELSE Str(EmptyUrl)
        /\ last.args = NoArgs => last.domain = Unknown
        /\ last.ran = 1

\* an event as far as the two forms are compared: the kind of a log event
\* (started, success, failed), a metric update with all of its labels
EventShape(ev) == IF ev.k = "log" THEN [k |-> "log", s |-> ev.s] ELSE ev
EventShapes(rec) == [i \in DOMAIN rec |-> EventShape(rec[i])]

\* what a scrape_operation block records for the url and the outcome of
\* the unit of work of invocation f
AsBlock(f) ==
    scrape_operation_exit(
        Frame("scrape_operation", NoArgs, f.url, url_domain_of(f.url).d, TRUE, TRUE,
              <<LogEv("started", "-", "-")>>, 1, NoOutcome, NoOutcome),
        f.body)

\* C15: a track_scrape_operation call with logger and metrics supplied
\* records the events a scrape_operation block records for the same
\* operation name, URL and outcome of the unit of work, in the same order
\* and with the same labels, and besides them only the items-scraped update.
C15_DecoratorAsBlock ==
    (last.form = "track_scrape_operation" /\ last.lg /\ last.mt /\ last.ran = 1) =>
        EventShapes(SelectSeq(last.rec, LAMBDA ev : ev.k # "items"))
            = EventShapes(AsBlock(last).rec)

\* the http-request increments of f with a status code
NHttp(f, status_code) ==
    Cardinality({i \in DOMAIN f.rec : /\ f.rec[i].k = "http_req"
                                      /\ f.rec[i].s = status_code
                                      /\ f.rec[i].d = f.domain})

\* C34: a page_request block has recorded, once its body has ended, exactly
\* one scraper_http_requests_total increment and exactly one response-time
\* observation: with status_code "200" when the body exits normally; with
\* status_code "500" and one error-counter increment for the operation
\* "http_request" when the body raises, and then its caller receives that
\* same exception; and it has recorded no scrape request and no scrape
\* duration.
C34_PageRequestRecordedOnce ==
    (last.form = "page_request" /\ last.body.t \in {"return", "raise"}) =>
        /\ NKind(last, "http_req") = 1
        /\ NKind(last, "http_dur") = 1
        /\ NKind(last, "req") = 0
        /\ NKind(last, "dur") = 0
        /\ last.body.t = "return" =>
              /\ NHttp(last, "200") = 1
              /\ NKind(last, "err") = 0
        /\ last.body.t = "raise" =>
              /\ NHttp(last, "500") = 1
              /\ NErr(last, last.body.exc.cls, "http_request") = 1
              /\ NKind(last, "err") = 1
              /\ last.caller = Raised(last.body.exc)

\* the instruments the records of f touch (a log record touches none)
Touched(f) == {f.rec[i].k : i \in DOMAIN f.rec} \ {"log"}

\* C35: a scrape_operation block, with whatever item_type it is entered,
\* changes only the request-outcome counter, the duration histogram and,
\* when its body raised, the error counter: it never increments the
\* items-scraped counter and touches no other instrument (HTTP requests,
\* HTTP response time, rate limit, proxy, queue).
C35_BlockFrameEffect ==
    /\ \A i \in DOMAIN stack :
           stack[i].form = "scrape_operation" => Touched(stack[i]) = {}
    /\ last.form = "scrape_operation" =>
           /\ Touched(last) \subseteq {"req", "dur", "err"}
           /\ "err" \in Touched(last) => last.body.t = "raise"
           /\ NKind(last, "items") = 0

C35_Witness ==
    /\ last.form = "scrape_operation"
    /\ last.body.t = "raise"
    /\ Touched(last) = {"req", "dur", "err"}

\* C27: the terminal log event of a tracked operation, block or decorated
\* call, carries the duration, and carries the error kind (the type name
\* of the failure) and the error message if and only if it is the failed
\* event.
C27_TerminalLogFields ==
    (last.form \in {"scrape_operation", "track_scrape_operation"}) =>
        \A i \in DOMAIN last.rec :
            (last.rec[i].k = "log" /\ last.rec[i].s \in {"success", "failed"}) =>
                /\ last.rec[i].o = "duration"
                /\ last.rec[i].s = "failed" <=> last.rec[i].e # "-"
                /\ last.rec[i].s = "failed" <=> last.rec[i].m # "-"
                /\ (last.rec[i].s = "failed" /\ last.body.t = "raise") =>
                      /\ last.rec[i].e = last.body.exc.cls
                      /\ last.rec[i].m = last.body.exc.msg

(***************************************************************************)
(* SpecHealth: the health registry of one ScrapingContext.  A call is one  *)
(* atomic step.  What a call returns (report) and what a GET is answered   *)
(* (response) stay in the state until the receiver drops them, and the     *)
(* next call is made after that: one result is in flight at a time.        *)
(***************************************************************************)
NothingInFlight == report = NoReport /\ response = NoResponse

called(op, name, n) ==
    /\ hcall' = HCall(op, name, n)
    /\ sampler' = "idle"
    /\ UNCHANGED <<trackerVars, rollupVars, nestVars, sinkVars, threadVars, clockVars, apiVars>>

\* HealthChecker.add_check
add_check(name) ==
    /\ mainPc = "ready" /\ NothingInFlight
    /\ Cardinality({i \in DOMAIN checks : checks[i].kind = "custom"}) < MaxCustom
    /\ checks' = Append(checks, HealthCheck(name, "custom"))
    /\ UNCHANGED <<server, mainPc, ctxLog, report, response>>
    /\ called("add_check", name, 1)

\* HealthChecker.remove_check
remove_check(name) ==
    /\ mainPc = "ready" /\ NothingInFlight
    /\ checks' = without(checks, name)
    /\ UNCHANGED <<server, mainPc, ctxLog, report, response>>
    /\ called("remove_check", name, Len(checks) - Len(checks'))

\* HealthChecker.run_checks called on the caller thread
\* (ScrapingContext.get_health_status)
run_checks ==
    /\ mainPc = "ready" /\ NothingInFlight
    /\ \E outs \in OutcomeSeqs(checks) : report' = run_checks_of(checks, outs)
    /\ UNCHANGED <<checks, server, mainPc, ctxLog, response>>
    /\ called("run_checks", "-", Len(report'.invoked))

\* a start_server that starts a listener whether or not one exists
start_server_rebinds(outcome) ==
    /\ mainPc = "ready" /\ NothingInFlight
    /\ server' = started(outcome)
    /\ UNCHANGED <<checks, mainPc, ctxLog, report, response>>
    /\ called("start_server", outcome, 0)

\* HealthChecker.start_server
start_server(outcome) ==
    /\ mainPc = "ready" /\ NothingInFlight
    /\ server' = IF server = "None" THEN started(outcome) ELSE server
    /\ UNCHANGED <<checks, mainPc, ctxLog, report, response>>
    /\ called("start_server", IF server = "None" THEN outcome ELSE "-", 0)

\* the body of stop_server: server.shutdown() waits for serve_forever to
\* end, and waits for ever on a server whose serve_forever never ran
stop(op) ==
    /\ mainPc = "ready" /\ NothingInFlight
    /\ IF server = "bound"
       THEN /\ mainPc' = "blocked"
            /\ UNCHANGED server
       ELSE /\ server' = "None"
            /\ UNCHANGED mainPc
    /\ UNCHANGED <<checks, report, response>>
    /\ called(op, "-", 0)

\* HealthChecker.stop_server
stop_server ==
    /\ stop("stop_server")
    /\ UNCHANGED ctxLog

\* ScrapingContext.shutdown
shutdown ==
    /\ ctxLog' = "Shutting down scraping context"
    /\ stop("shutdown")

\* HealthCheckHandler.do_GET for /health on the listener thread; a check
\* that raises past run_checks ends serve_forever
do_GET_health ==
    /\ server = "serving" /\ NothingInFlight
    /\ \E outs \in OutcomeSeqs(checks) :
           LET health_result == run_checks_of(checks, outs)
           IN  /\ report' = health_result
               /\ IF health_result.raised # NoExc
                  THEN /\ response' = NoResponse
                       /\ server' = "dead"
                  ELSE /\ response' = [path |-> "/health",
                                       code |-> http_status(health_result.status),
                                       body |-> health_result, text |-> "-"]
                       /\ UNCHANGED server
    /\ UNCHANGED <<checks, mainPc, ctxLog>>
    /\ called("do_GET", "/health", Len(report'.invoked))

\* a handler whose liveness endpoint makes a run of the checks
do_GET_other_runs_checks(path) ==
    /\ server = "serving" /\ NothingInFlight
    /\ path # "/health"
    /\ \E outs \in OutcomeSeqs(checks) : report' = run_checks_of(checks, outs)
    /\ response' = [path |-> path, code |-> 200, body |-> NoReport, text |-> "alive"]
    /\ UNCHANGED <<checks, server, mainPc, ctxLog>>
    /\ called("do_GET", path, Len(report'.invoked))

\* HealthCheckHandler.do_GET for the other paths
do_GET_other(path) ==
    /\ server = "serving" /\ NothingInFlight
    /\ path # "/health"
    /\ response' =
           CASE path = "/ready" ->
                  [path |-> path, code |-> 200, body |-> NoReport, text |-> "ready"]
             [] path = "/live" ->
                  [path |-> path, code |-> 200, body |-> NoReport, text |-> "alive"]
             [] OTHER ->
                  [path |-> path, code |-> 404, body |-> NoReport, text |-> ""]
    /\ UNCHANGED <<checks, server, mainPc, ctxLog, report>>
    /\ called("do_GET", path, 0)

\* the caller of run_checks drops the report, the client of the listener
\* has read the response
dropped ==
    /\ ~NothingInFlight
    /\ report' = NoReport
    /\ response' = NoResponse
    /\ UNCHANGED <<checks, server, mainPc, ctxLog>>
    /\ called("none", "-", 0)

\* one round of collect_metrics on the sampler thread that
\* ScrapingContext.__init__ starts: update_system_metrics sets the gauges,
\* or prints the failure of psutil and sets nothing
collect_metrics(ok) ==
    /\ sampler' = IF ok THEN "updated" ELSE sampler
    /\ UNCHANGED <<checks, server, mainPc, ctxLog, hcall, report, response>>
    /\ UNCHANGED <<trackerVars, rollupVars, nestVars, sinkVars, threadVars, clockVars, apiVars>>

Paths == {"/health", "/ready", "/live", "/metrics", "/health/"}

\* HealthChecker.__init__ inside ScrapingContext.__init__
InitHealth ==
    /\ TrackerInit
    /\ RollupIdle
    /\ ThreadsIdle
    /\ ClockIdle
    /\ ApiIdle
    /\ checks = [i \in 1..3 |-> HealthCheck(DefaultNames[i], "default")]
    /\ \E health_check_enabled \in BOOLEAN, outcome \in StartOutcomes :
           /\ server = IF health_check_enabled THEN started(outcome) ELSE "None"
           /\ hcall = HCall("__init__", IF health_check_enabled THEN outcome ELSE "-", 0)
    /\ mainPc = "ready"
    /\ ctxLog = "Scraping context initialized"
    /\ report = NoReport
    /\ response = NoResponse
    /\ sampler = "idle"

NextHealth ==
    \/ \E name \in AddNames : add_check(name)
    \/ \E name \in RemoveNames : remove_check(name)
    \/ run_checks
    \/ \E outcome \in StartOutcomes : start_server(outcome)
    \/ stop_server
    \/ shutdown
    \/ do_GET_health
    \/ \E path \in Paths : do_GET_other(path)
    \/ dropped
    \/ \E ok \in BOOLEAN : collect_metrics(ok)

SpecHealth == InitHealth /\ [][NextHealth]_vars

(***************************************************************************)
(* Claims about the health registry, checked under SpecHealth.             *)
(***************************************************************************)
Names(cs) == {cs[i].name : i \in DOMAIN cs}

\* C5: run_checks isolates check failures: a check function that raises
\* yields a result with status unhealthy and a non-empty error message,
\* the fault does not propagate out of run_checks, and every check
\* registered after the failing one is executed and reported in that run.
C5_FailuresIsolated ==
    \A i \in DOMAIN report.invoked :
        report.invoked[i].t = "raise" =>
            /\ report.raised = NoExc
            /\ Len(report.invoked) = Len(checks)
            /\ Len(report.checks) = Len(checks)
            /\ report.checks[i].status = UNHEALTHY
            /\ report.checks[i].error \notin {"None", ""}

\* C7: GET /health is answered 503 exactly when the aggregate status of
\* the run made for it is unhealthy, and 200 when it is healthy or
\* degraded; the body is the report of that run, one result per
\* registered check.
C7_HealthStatusCode ==
    response.path = "/health" =>
        /\ response.body.status \in {HEALTHY, DEGRADED, UNHEALTHY}
        /\ response.code = 503 <=> response.body.status = UNHEALTHY
        /\ response.code = 200 <=> response.body.status \in {HEALTHY, DEGRADED}
        /\ response.body = report
        /\ report.raised = NoExc
        /\ Len(response.body.checks) = Len(checks)

C7_Witness ==
    /\ response.path = "/health"
    /\ response.code = 503
    /\ \E i \in DOMAIN response.body.checks : response.body.checks[i].error = "boom"

\* C8: remove_check(x) removes every check named x and leaves the other
\* checks and their order alone, so that it changes nothing when x is not
\* registered; and a name that is not registered appears in no report and
\* stays unregistered until add_check is called with it.
C8_RemoveRemovesAll ==
    [][\A n \in AddNames \cup RemoveNames :
          /\ (hcall'.op = "remove_check" /\ hcall'.name = n) =>
                /\ n \notin Names(checks')
                /\ checks' = SelectSeq(checks, LAMBDA c : c.name # n)
                /\ n \notin Names(checks) => checks' = checks
          /\ (n \notin Names(checks) /\ ~(hcall'.op = "add_check" /\ hcall'.name = n)) =>
                /\ n \notin Names(checks')
                /\ n \notin Names(report'.checks)]_vars

C8_Witness ==
    /\ hcall.op = "remove_check"
    /\ hcall.name = "x"
    /\ hcall.n = 2
    /\ Len(checks) >= 2
    /\ "x" \notin Names(checks)

\* C9: check names are a unique key: the registry never holds two checks
\* of one name, and a report never holds two entries of one name.
C9_UniqueNames ==
    /\ \A i, j \in DOMAIN checks : i # j => checks[i].name # checks[j].name
    /\ \A i, j \in DOMAIN report.checks :
           i # j => report.checks[i].name # report.checks[j].name

\* C10: shutdown is idempotent: a call of ScrapingContext.shutdown or
\* HealthChecker.stop_server returns, also when the listener was never
\* started, and leaves the listener stopped, however many were made before.
C10_ShutdownIdempotent ==
    /\ mainPc # "blocked"
    /\ hcall.op \in {"stop_server", "shutdown"} => server = "None"

\* C18: GET /live is answered 200 with status "alive" whatever checks are
\* registered, and answering it invokes no check function: no run of the
\* checks is made for it.
C18_LiveRunsNoCheck ==
    response.path = "/live" =>
        /\ response.code = 200
        /\ response.text = "alive"
        /\ response.body = NoReport
        /\ report = NoReport
        /\ hcall = HCall("do_GET", "/live", 0)

C18_Witness ==
    /\ response.path = "/live"
    /\ response.code = 200
    /\ \E i \in DOMAIN checks : checks[i].kind = "custom"

\* C11: after ScrapingContext.shutdown has returned, the health listener
\* serves no more and the system-metrics sampler sets the gauges no more.
C11_BackgroundStopped ==
    (hcall.op = "shutdown" /\ mainPc = "ready") =>
        /\ server = "None"
        /\ sampler = "idle"

\* C22: each run_checks call invokes every registered check function once,
\* in registration order, and its report holds one result per registered
\* check in that order, each computed from what the check function did in
\* this call.
C22_EveryCheckOnce ==
    report # NoReport =>
        /\ report.raised = NoExc
        /\ Len(report.invoked) = Len(checks)
        /\ Len(report.checks) = Len(checks)
        /\ \A i \in DOMAIN report.checks :
               /\ i \in DOMAIN checks /\ i \in DOMAIN report.invoked
               /\ report.checks[i].name = checks[i].name
               /\ report.checks[i] = HealthCheck_run(checks[i], report.invoked[i]).result

\* C24: a check registered through add_check can produce a result with
\* status degraded: when its function returns HealthStatus.DEGRADED its
\* result is degraded, and so is the aggregate when no result is
\* unhealthy; and no result of a default check is degraded.
C24_CustomMayDegrade ==
    report.raised = NoExc =>
        \A i \in DOMAIN report.checks :
            /\ (checks[i].kind = "custom" /\ report.invoked[i] = CheckReturned("degraded")) =>
                  /\ report.checks[i].status = DEGRADED
                  /\ (\A j \in DOMAIN report.checks : report.checks[j].status # UNHEALTHY)
                        => report.status = DEGRADED
            /\ checks[i].kind = "default" => report.checks[i].status # DEGRADED

\* C26: a failure to bind or start the health listener is not fatal: the
\* constructor or start_server returns with the listener recorded as not
\* started (server is None), and the calls made afterwards, shutdown
\* among them, return.
C26_StartFailureNonFatal ==
    /\ (hcall.op \in {"__init__", "start_server"} /\ hcall.name \in {"bind_fails", "thread_fails"})
          => server = "None"
    /\ mainPc = "ready"

\* C29 as stated: the answer to GET /ready is computed from a fresh run of
\* all registered checks.
C29_ReadyRunsChecks ==
    response.path = "/ready" =>
        /\ report # NoReport
        /\ Len(report.invoked) = Len(checks)
        /\ hcall = HCall("do_GET", "/ready", Len(checks))

\* C29 amended: the answer to GET /ready is computed without running any
\* check: it is 200 with status "ready" whatever checks are registered; of
\* the endpoints only /health is answered from a fresh run of all
\* registered checks.
C29_ReadyRunsNoCheck ==
    /\ response.path = "/ready" =>
          /\ response.code = 200
          /\ response.text = "ready"
          /\ response.body = NoReport
          /\ report = NoReport
          /\ hcall = HCall("do_GET", "/ready", 0)
    /\ response.path = "/health" =>
          /\ response.body = report
          /\ Len(report.invoked) = Len(checks)
          /\ hcall = HCall("do_GET", "/health", Len(checks))

C29_Witness ==
    /\ response.path = "/ready"
    /\ response.text = "ready"
    /\ server = "serving"
    /\ \E i \in DOMAIN checks : checks[i].kind = "custom"

\* C30: a GET for a path other than /health, /ready and /live is answered
\* 404 with an empty body, and no check is run for it.
C30_OtherPathNotFound ==
    (response # NoResponse /\ response.path \notin {"/health", "/ready", "/live"}) =>
        /\ response.code = 404
        /\ response.text = ""
        /\ response.body = NoReport
        /\ report = NoReport
        /\ hcall = HCall("do_GET", response.path, 0)

C30_Witness ==
    /\ response.path = "/metrics"
    /\ response.code = 404
    /\ server = "serving"
    /\ Len(checks) > 3


\* the step is a call of op (collect_metrics is the one action that leaves
\* hcall alone, and it changes sampler only)
IsCall(ops) == hcall'.op \in ops /\ sampler' = sampler

\* C33: a HealthChecker owns at most one listener in every reachable
\* state: self.server is None or the one listener; start_server is a no-op
\* while a server exists; after a stop_server (or shutdown) that has
\* returned, the server field is None; and a start_server that finds it
\* None, as after stop_server, starts a fresh listener, whose state is what
\* this start met and nothing of the listener before it.
C33_AtMostOneListener ==
    [][/\ server' \in {"None", "serving", "bound", "dead"}
       /\ IsCall({"start_server"}) =>
             /\ server # "None" => server' = server
             /\ server = "None" => server' = started(hcall'.name)
       /\ (IsCall({"stop_server", "shutdown"}) /\ mainPc' = "ready") =>
             server' = "None"]_vars

\* start_server has started a listener after a shutdown that returned
C33_Witness ==
    /\ ctxLog = "Shutting down scraping context"
    /\ mainPc = "ready"
    /\ hcall = HCall("start_server", "ok", 0)
    /\ server = "serving"

(***************************************************************************)
(* SpecRollup: the rollup of run_checks applied to any sequence of         *)
(* per-check statuses.                                                     *)
(***************************************************************************)
Statuses == {HEALTHY, UNHEALTHY, DEGRADED}
StatusSeqs == UNION {[1..n -> Statuses] : n \in 0..MaxStatuses}

\* overall_status after the loop of run_checks has seen statuses
RECURSIVE rollup_from(_, _, _)
rollup_from(overall, statuses, i) ==
    IF i > Len(statuses) THEN overall
    ELSE rollup_from(rollup_step(overall, statuses[i]), statuses, i + 1)
Rollup(statuses) == rollup_from(HEALTHY, statuses, 1)

InitRollup ==
    /\ TrackerInit
    /\ HealthIdle
    /\ ThreadsIdle
    /\ ClockIdle
    /\ ApiIdle
    /\ aggIn \in StatusSeqs
    /\ aggOut = "none"

rollup ==
    /\ aggOut = "none"
    /\ aggOut' = Rollup(aggIn)
    /\ UNCHANGED <<aggIn, trackerVars, healthVars, nestVars, sinkVars, threadVars, clockVars, apiVars>>

NextRollup == rollup

SpecRollup == InitRollup /\ [][NextRollup]_vars

WorstOf(statuses) ==
    IF \E i \in DOMAIN statuses : statuses[i] = UNHEALTHY THEN UNHEALTHY
    ELSE IF \E i \in DOMAIN statuses : statuses[i] = DEGRADED THEN DEGRADED
    ELSE HEALTHY

Perms(n) == {p \in [1..n -> 1..n] : \A i, j \in 1..n : p[i] = p[j] => i = j}

\* C6: the aggregate status is the worst-of rollup of the per-check
\* statuses: unhealthy if any is unhealthy, else degraded if any is
\* degraded, else healthy, also for no check at all; and it is the same
\* for every permutation of the statuses.
C6_WorstOfRollup ==
    aggOut # "none" =>
        /\ aggOut = WorstOf(aggIn)
        /\ \A p \in Perms(Len(aggIn)) :
               Rollup([i \in 1..Len(aggIn) |-> aggIn[p[i]]]) = aggOut

C6_Witness ==
    /\ aggOut = UNHEALTHY
    /\ Len(aggIn) = 3
    /\ aggIn[1] = DEGRADED /\ aggIn[2] = UNHEALTHY /\ aggIn[3] = DEGRADED

(***************************************************************************)
(* SpecNested: a tracked unit of work (outer) whose body makes one call:   *)
(* a tracked invocation, as in `with ctx.scrape_operation(...): try:       *)
(* with ctx.page_request(url): ...`, or a call no tracker wraps.  The call *)
(* is made on stack and completes into last; the body of outer then lets   *)
(* the failure of the call propagate, or catches it and ends normally.     *)
(***************************************************************************)
OuterForms == {"scrape_operation", "track_scrape_operation"}
OuterUrls == {Str(EmptyUrl), Str(GoodUrl)}
InnerUrls == {Str(GoodUrl)}

OuterRunning == outer # NoCall /\ outer.caller = NoOutcome

\* a tracker that has reached its unit of work: a scrape_operation block,
\* or a track_scrape_operation call with logger and metrics and the
\* keyword url
tracked_frame(form, url) ==
    Frame(form, IF form = "scrape_operation" THEN NoArgs ELSE <<url, Absent>>,
          url, url_domain_of(url).d, TRUE, TRUE,
          <<LogEv("started", "-", "-")>>, 1, NoOutcome, NoOutcome)

\* the outer tracker up to its unit of work
outer_enters(form, url) ==
    /\ outer = NoCall /\ stack = <<>> /\ last = NoCall
    /\ url_domain_of(url).ok
    /\ outer' = tracked_frame(form, url)
    /\ UNCHANGED <<trackerVars, healthVars, rollupVars, sinkVars, threadVars, clockVars, apiVars>>

\* the body of outer calls something no tracker wraps, and that raises e
untracked_raises(e) ==
    /\ OuterRunning /\ stack = <<>> /\ last = NoCall
    /\ last' = Frame("untracked", NoArgs, Absent, <<>>, FALSE, FALSE, <<>>, 1,
                     Raised(e), Raised(e))
    /\ UNCHANGED <<stack, nestVars, healthVars, rollupVars, sinkVars, threadVars, clockVars, apiVars>>

\* the body of outer ends after its call: the exception of the call leaves
\* the body, or the body has caught it (or there was none) and ends normally
outer_ends(caught) ==
    /\ OuterRunning /\ stack = <<>> /\ last # NoCall
    /\ caught => last.caller.t = "raise"
    /\ LET out == IF last.caller.t = "raise" /\ ~caught
                  THEN Raised(last.caller.exc) ELSE Returned(RNone)
           x == tracker_exit(outer, out)
       IN  outer' = [outer EXCEPT !.rec = x.rec, !.body = out, !.caller = x.caller]
    /\ UNCHANGED <<trackerVars, healthVars, rollupVars, sinkVars, threadVars, clockVars, apiVars>>

InitNested == Init

NextNested ==
    \/ \E form \in OuterForms, url \in OuterUrls : outer_enters(form, url)
    \/ OuterRunning /\ \E url \in InnerUrls : scrape_operation_enter(url, "item", "none")
    \/ OuterRunning /\ \E url \in InnerUrls : page_request_enter(url, "none")
    \/ OuterRunning /\ \E kw \in InnerUrls : track_scrape_operation_call(kw, Absent, TRUE, TRUE)
    \/ OuterRunning /\ \E kw \in InnerUrls : track_page_scrape_call(kw, Absent, TRUE, TRUE)
    \/ OuterRunning /\ \E result \in Results : body_returns(result)
    \/ OuterRunning /\ \E e \in BodyExcs : body_raises(e)
    \/ \E e \in BodyExcs : untracked_raises(e)
    \/ \E caught \in BOOLEAN : outer_ends(caught)

SpecNested == InitNested /\ [][NextNested]_vars

\* outer has completed around a call that completed before it
OuterDone == outer # NoCall /\ outer.caller # NoOutcome

\* the records both layers made
BothLayers == [outer EXCEPT !.rec = last.rec \o outer.rec]

\* C16: nested trackers are independent: when a tracked unit of work calls
\* a tracked unit of work, each layer has recorded one started event, one
\* terminal event, one request outcome and one duration; a failure that
\* leaves both layers is counted failed once per layer, twice in all, with
\* two error increments; and a failure the outer body catches is recorded
\* failed by the inner layer and success by the outer layer.
C16_NestedIndependent ==
    (OuterDone /\ IsTrackedUnit(last) /\ last.ran = 1) =>
        /\ \A f \in {last, outer} :
              /\ NLog(f, "started") = 1
              /\ NLog(f, "success") + NLog(f, "failed") = 1
              /\ NKind(f, "req") = 1
              /\ NKind(f, "dur") = 1
        /\ (last.caller.t = "raise" /\ outer.body.t = "raise") =>
              /\ NReq(last, "failed") = 1 /\ NReq(outer, "failed") = 1
              /\ NKind(BothLayers, "err") = 2
        /\ (last.caller.t = "raise" /\ outer.body.t = "return") =>
              /\ NReq(last, "failed") = 1
              /\ NReq(outer, "success") = 1
              /\ NKind(outer, "err") = 0

\* C19: when a call made inside a scrape_operation block fails and the body
\* of the block catches the failure itself, the block is still counted with
\* status=failed and the error counter is incremented for it.
C19_CaughtFailureRecorded ==
    (/\ OuterDone /\ outer.form = "scrape_operation"
     /\ last.caller.t = "raise" /\ IsException(last.caller.exc)
     /\ outer.body.t = "return") =>
        /\ NReq(outer, "failed") = 1
        /\ NKind(outer, "err") = 1

(***************************************************************************)
(* SpecSinks: one tracked invocation at a time, with the records it makes  *)
(* followed into the sinks.  A log record carries the context bound to the *)
(* logger it is written with; a metric sample carries the labels that      *)
(* _get_labels_dict reads from the config at the time of the call, and the *)
(* metric rejects them (labels() raises ValueError) when their names are   *)
(* not the label names it was registered with in ScraperMetrics.__init__.  *)
(***************************************************************************)
SinkContexts == {"none", "scraper_name"}

\* self.logger.bind(operation=..., url=..., url_domain=..., **context): a
\* key of the context replaces what the logger had bound under that key
bound_labels(form, ctx) ==
    IF form = "scrape_operation" /\ ctx = "scraper_name"
    THEN [get_base_labels(ConfigAtInit) EXCEPT !.scraper_name = "other"]
    ELSE get_base_labels(ConfigAtInit)

\* metric.labels(**self._get_labels_dict(...)) finds the registered names
labels_accepted(c) == c.custom_labels = ConfigAtInit.custom_labels
LabelError == Exc("ValueError", "Incorrect label names")

Accepts(ev) == ev.k = "log" \/ labels_accepted(config)

\* the records made before the first recording call that raises
RECURSIVE Accepted(_)
Accepted(evs) ==
    IF evs = <<>> \/ ~Accepts(Head(evs)) THEN <<>>
    ELSE <<Head(evs)>> \o Accepted(Tail(evs))

\* the records of rec after the first n
After(rec, n) == SubSeq(rec, n + 1, Len(rec))

\* the tracker of frame f after its unit of work ended with out, when the
\* recording calls may raise: inside the try the ValueError is handled as
\* a failure of the unit of work, inside the except branch it leaves the
\* tracker
tracker_exit_sinks(f, out) ==
    LET plan == tracker_exit(f, out)
        new == After(plan.rec, Len(f.rec))
        g == [f EXCEPT !.rec = f.rec \o Accepted(new)]
        again == tracker_exit(g, Raised(LabelError))
    IN  IF Accepted(new) = new THEN plan
        ELSE IF plan.caller.t = "return"
        THEN Exit(g.rec \o Accepted(After(again.rec, Len(g.rec))), Raised(LabelError))
        ELSE Exit(g.rec, Raised(LabelError))

\* the identity labels a record is written with
labels_of(ev) == IF ev.k = "log" THEN opLogger ELSE get_base_labels(config)

\* an assignment to a field of the config object after the context was built
config_mutated(c) ==
    /\ c # config
    /\ config' = c
    /\ UNCHANGED <<opLogger, emitted, trackerVars, nestVars, healthVars, rollupVars, threadVars,
                   clockVars, apiVars>>

\* a tracker with logger and metrics up to its unit of work
tracked_enters(form, url, ctx) ==
    /\ stack = <<>> /\ last = NoCall
    /\ form = "track_scrape_operation" => ctx = "none"
    /\ stack' = <<tracked_frame(form, url)>>
    /\ opLogger' = bound_labels(form, ctx)
    /\ emitted' = <<bound_labels(form, ctx)>>
    /\ UNCHANGED <<last, config, nestVars, healthVars, rollupVars, threadVars, clockVars, apiVars>>

\* the unit of work ends with out and the tracker makes its terminal records
tracked_ends(out) ==
    /\ stack # <<>>
    /\ IsBlock(Top) => out.v = RNone
    /\ LET x == tracker_exit_sinks(Top, out)
           new == After(x.rec, Len(Top.rec))
       IN  /\ last' = [Top EXCEPT !.rec = x.rec, !.body = out, !.caller = x.caller]
           /\ emitted' = emitted \o [i \in DOMAIN new |-> labels_of(new[i])]
    /\ stack' = Pop
    /\ UNCHANGED <<config, opLogger, nestVars, healthVars, rollupVars, threadVars, clockVars, apiVars>>

\* the unit of work returns, or the block is left normally
unit_returns(result) == tracked_ends(Returned(result))

\* the unit of work raises e
unit_raises(e) == tracked_ends(Raised(e))

\* ScraperMetrics.update_system_metrics, called by the sampler thread: the
\* gauges are set, or what psutil or labels() raised is printed; the call
\* returns normally either way
update_system_metrics_of(c, psutil_ok) ==
    IF ~psutil_ok THEN "printed: psutil failed"
    ELSE IF ~labels_accepted(c) THEN "printed: Incorrect label names"
    ELSE "updated"

update_system_metrics(psutil_ok) ==
    /\ sampler' = update_system_metrics_of(config, psutil_ok)
    /\ UNCHANGED <<checks, server, mainPc, ctxLog, hcall, report, response>>
    /\ UNCHANGED <<trackerVars, nestVars, sinkVars, rollupVars, threadVars, clockVars, apiVars>>

InitSinks == Init

NextSinks ==
    \/ \E c \in Configs : config_mutated(c)
    \/ \E form \in OuterForms, url \in OuterUrls, ctx \in SinkContexts :
           tracked_enters(form, url, ctx)
    \/ \E result \in Results : unit_returns(result)
    \/ \E e \in BodyExcs : unit_raises(e)
    \/ outcome_taken
    \/ \E psutil_ok \in BOOLEAN : update_system_metrics(psutil_ok)

SpecSinks == InitSinks /\ [][NextSinks]_vars

\* C17: every log record and every metric sample of the context carries
\* the identity labels fixed when the context was configured: a later
\* assignment to the config object does not change them, and extra context
\* passed to a tracked operation does not override them.
C17_IdentityFixed ==
    \A i \in DOMAIN emitted : emitted[i] = get_base_labels(ConfigAtInit)

\* C20: one tracker invocation has recorded at most one terminal log event,
\* at most one request-outcome increment and at most one error increment,
\* also when a recording call of its terminal step raised.
C20_NeverTwice ==
    IsTrackedUnit(last) =>
        /\ NLog(last, "success") + NLog(last, "failed") <= 1
        /\ NKind(last, "req") <= 1
        /\ NKind(last, "err") <= 1

\* C25: a recording that the metric sink rejects surfaces to the caller of
\* the recording operation as a raised failure and is never dropped
\* silently: a tracked operation that returns normally to its caller has
\* made its request and duration records, and no round of
\* update_system_metrics whose labels were rejected has printed the
\* failure and returned normally.
C25_RecordingFailureSurfaces ==
    /\ (IsTrackedUnit(last) /\ last.caller.t = "return") =>
          /\ NKind(last, "req") = 1
          /\ NKind(last, "dur") = 1
    /\ sampler # "printed: Incorrect label names"

(***************************************************************************)
(* SpecThreads: the health registry with its calls made by threads.  The   *)
(* caller threads make add_check and remove_check calls, the listener      *)
(* thread answers GET /health with run_checks.  HealthChecker has no lock: *)
(* a step of a thread is one access to self.checks, to a list or to a      *)
(* HealthCheck object, and the steps of the threads interleave freely.     *)
(* A list is an object: remove_check builds a new list and assigns it to   *)
(* self.checks, an iterator and an append work on the list they loaded.    *)
(***************************************************************************)
MaxCalls == 2       \* add_check and remove_check calls the caller threads make

\* what a check function does in SpecThreads
ThreadOutcomes == {CheckReturned("True"), CheckRaised(Exc("RuntimeError", "boom"))}

\* self.checks as a sequence of HealthCheck, read through the heap
registry(h) ==
    [i \in DOMAIN h.lists[h.cur] |->
        HealthCheck(h.objs[h.lists[h.cur][i]].name, h.objs[h.lists[h.cur][i]].kind)]

\* HealthChecker.__init__: self.checks = [] and _setup_default_checks
HeapAtInit ==
    Heap([i \in 1..3 |-> HealthCheckObject(DefaultNames[i], "default", "None", "None", "None")],
         <<<<1, 2, 3>>>>, 1)

heap_becomes(h) ==
    /\ heap' = h
    /\ checks' = registry(h)

\* the values of self.checks since run_checks started, once it has value h
snapshots(h) ==
    IF thr[Listener].op = "run_checks" THEN hist.snaps \cup {registry(h)} ELSE hist.snaps

thread_step(t, call) ==
    /\ thr' = [thr EXCEPT ![t] = call]
    /\ UNCHANGED <<trackerVars, rollupVars, nestVars, sinkVars, clockVars, apiVars>>
    /\ UNCHANGED <<server, mainPc, ctxLog, sampler>>

\* add_check up to the load of self.checks: HealthCheck(...) is constructed
add_check_load(t, name) ==
    /\ thr[t].pc = "idle"
    /\ hist.calls < MaxCalls
    /\ Cardinality({i \in DOMAIN heap.objs : heap.objs[i].kind = "custom"}) < MaxCustom
    /\ heap_becomes([heap EXCEPT !.objs = Append(@,
                        HealthCheckObject(name, "custom", "None", "None", "None"))])
    /\ thread_step(t, ThreadCall("add_check", name, "append", heap.cur, 0,
                                 Len(heap.objs) + 1, <<>>, <<>>, "-"))
    /\ hist' = [hist EXCEPT !.calls = @ + 1]
    /\ UNCHANGED <<hcall, report, response>>

\* add_check: .append(health_check) on the list that was loaded, and return
add_check_append(t) ==
    /\ thr[t].op = "add_check" /\ thr[t].pc = "append"
    /\ heap_becomes([heap EXCEPT !.lists[thr[t].ref] = Append(@, thr[t].obj)])
    /\ thread_step(t, NoThreadCall)
    /\ hist' = [hist EXCEPT !.added = @ \cup {thr[t].name},
                            !.snaps = snapshots(heap')]
    /\ hcall' = HCall("add_check", thr[t].name, 1)
    /\ UNCHANGED <<report, response>>

\* remove_check: self.checks is loaded and the comprehension gets its iterator
remove_check_iter(t, name) ==
    /\ thr[t].pc = "idle"
    /\ hist.calls < MaxCalls
    /\ thread_step(t, ThreadCall("remove_check", name, "loop", heap.cur, 1, 0,
                                 <<>>, <<>>, "-"))
    /\ hist' = [hist EXCEPT !.calls = @ + 1, !.removed = @ \cup {name}]
    /\ UNCHANGED <<heap, checks, hcall, report, response>>

\* remove_check: one round of the comprehension: the iterator gives the next
\* check of its list, which is kept unless it has the name, or is exhausted
remove_check_next(t) ==
    /\ thr[t].op = "remove_check" /\ thr[t].pc = "loop"
    /\ LET list == heap.lists[thr[t].ref]
           c == thr[t]
       IN  IF c.idx > Len(list)
           THEN thread_step(t, [c EXCEPT !.pc = "store"])
           ELSE thread_step(t, [c EXCEPT !.idx = @ + 1,
                    !.acc = IF heap.objs[list[c.idx]].name # c.name
                            THEN Append(@, list[c.idx]) ELSE @])
    /\ UNCHANGED <<heap, checks, hist, hcall, report, response>>

\* remove_check: the new list is assigned to self.checks, and return
remove_check_store(t) ==
    /\ thr[t].op = "remove_check" /\ thr[t].pc = "store"
    /\ heap_becomes([heap EXCEPT !.lists = Append(@, thr[t].acc),
                                 !.cur = Len(heap.lists) + 1])
    /\ thread_step(t, NoThreadCall)
    /\ hist' = [hist EXCEPT !.snaps = snapshots(heap')]
    /\ hcall' = HCall("remove_check", thr[t].name, Len(checks) - Len(thr[t].acc))
    /\ UNCHANGED <<report, response>>

\* a HealthCheck.run that keeps the first result it computed
HealthCheck_retain_first(check, result) ==
    IF check.last_status # "None" THEN check
    ELSE HealthCheckObject(check.name, check.kind, "time", result.status, result.error)

\* HealthCheck.run: self.last_check_time, self.last_status and
\* self.last_error are assigned from the result it is about to return
HealthCheck_retain(check, result) ==
    HealthCheckObject(check.name, check.kind, "time", result.status, result.error)

\* do_GET for /health on the listener thread: run_checks up to its loop
run_checks_iter ==
    /\ server = "serving"
    /\ thr[Listener].pc = "idle"
    /\ thread_step(Listener, ThreadCall("run_checks", "-", "loop", heap.cur, 1, 0,
                                        <<>>, <<>>, HEALTHY))
    /\ hist' = [hist EXCEPT !.must = hist.added \ hist.removed, !.snaps = {checks}]
    /\ report' = NoReport
    /\ response' = NoResponse
    /\ UNCHANGED <<heap, checks, hcall>>

\* run_checks: one round of its loop: check.run() of the next check of the
\* list, whose function does out
run_checks_next(out) ==
    /\ thr[Listener].op = "run_checks"
    /\ thr[Listener].idx <= Len(heap.lists[thr[Listener].ref])
    /\ LET c == thr[Listener]
           o == heap.lists[c.ref][c.idx]
           r == HealthCheck_run(HealthCheck(heap.objs[o].name, heap.objs[o].kind), out)
       IN  /\ heap_becomes([heap EXCEPT !.objs[o] = HealthCheck_retain(@, r.result)])
           /\ thread_step(Listener, [c EXCEPT !.idx = @ + 1,
                   !.acc = Append(@, r.result),
                   !.outs = Append(@, out),
                   !.overall = rollup_step(@, r.result.status)])
    /\ UNCHANGED <<hist, hcall, report, response>>

\* the loop of run_checks ends, run_checks returns its report and do_GET
\* answers with it
run_checks_return ==
    /\ thr[Listener].op = "run_checks"
    /\ thr[Listener].idx > Len(heap.lists[thr[Listener].ref])
    /\ LET c == thr[Listener]
           health_result == RunResult(c.overall, c.acc, NoExc, c.outs)
       IN  /\ report' = health_result
           /\ response' = [path |-> "/health", code |-> http_status(c.overall),
                           body |-> health_result, text |-> "-"]
           /\ hcall' = HCall("do_GET", "/health", Len(c.outs))
    /\ thread_step(Listener, NoThreadCall)
    /\ UNCHANGED <<heap, checks, hist>>

\* a context whose health listener serves
InitThreads ==
    /\ TrackerInit
    /\ RollupIdle
    /\ ClockIdle
    /\ ApiIdle
    /\ heap = HeapAtInit
    /\ checks = registry(HeapAtInit)
    /\ thr = [t \in Threads |-> NoThreadCall]
    /\ hist = History({}, {}, {}, 0, {})
    /\ server = "serving"
    /\ mainPc = "ready"
    /\ ctxLog = "Scraping context initialized"
    /\ hcall = HCall("__init__", "-", 0)
    /\ report = NoReport
    /\ response = NoResponse
    /\ sampler = "idle"

NextThreads ==
    \/ \E t \in Callers, name \in AddNames : add_check_load(t, name)
    \/ \E t \in Callers : add_check_append(t)
    \/ \E t \in Callers, name \in RemoveNames : remove_check_iter(t, name)
    \/ \E t \in Callers : remove_check_next(t)
    \/ \E t \in Callers : remove_check_store(t)
    \/ run_checks_iter
    \/ \E out \in ThreadOutcomes : run_checks_next(out)
    \/ run_checks_return

SpecThreads == InitThreads /\ [][NextThreads]_vars

\* C21: under any interleaving of add_check and remove_check on the caller
\* threads with each other and with run_checks on the listener thread, no
\* registration is lost: a name add_check has returned for and
\* remove_check was never called with is registered, and is in every report
\* of a run_checks that started after that add_check returned.
C21_NoRegistrationLost ==
    /\ \A n \in hist.added \ hist.removed : n \in Names(checks)
    /\ report # NoReport =>
          \A n \in hist.must \ hist.removed : n \in Names(report.checks)

RetainsNothing(check) ==
    /\ check.last_check_time = "None"
    /\ check.last_status = "None"
    /\ check.last_error = "None"

Reported(r) == [i \in DOMAIN r.checks |-> r.checks[i].name]
RegistryNames(cs) == [i \in DOMAIN cs |-> cs[i].name]

\* C31: while add_check and remove_check run on the caller threads during a
\* run_checks on the listener thread, run_checks does not raise and the
\* checks its report lists, in their order, are the contents of the
\* registry at one instant between the start and the end of that run.
C31_ConsistentSnapshot ==
    (thr[Listener].pc = "idle" /\ report # NoReport) =>
        /\ report.raised = NoExc
        /\ \E cs \in hist.snaps : Reported(report) = RegistryNames(cs)

(***************************************************************************)
(* SpecClock: the clock readings of a tracker.  Every tracker reads        *)
(* time.time() on entry (start_time) and again when its unit of work has   *)
(* ended (duration = time.time() - start_time).  time.time() is the wall   *)
(* clock of the system: it advances with the time that passes, and it is   *)
(* stepped, backwards or forwards, when the system clock is set.  Time is  *)
(* counted in ticks.                                                       *)
(***************************************************************************)
MaxTicks == 2       \* ticks that pass, and the size of a clock adjustment

TimedForms == {"scrape_operation", "page_request", "track_scrape_operation",
               "track_page_scrape"}
Adjustments == {d \in -MaxTicks..MaxTicks : d # 0}

\* time.time()
time_time == clock.wall

\* start_time = time.time(), the first statement of every tracker
timed_enters(form) ==
    /\ timed.pc \in {"idle", "done"}
    /\ timed' = Timed(form, "running", time_time, clock.elapsed, 0, 0)
    /\ UNCHANGED <<clock, trackerVars, healthVars, rollupVars, nestVars, sinkVars, threadVars, apiVars>>

\* duration = time.time() - start_time, after the unit of work returned
\* and in the except branch alike
timed_ends ==
    /\ timed.pc = "running"
    /\ timed' = [timed EXCEPT !.pc = "done", !.duration = time_time - timed.start_time,
                              !.left = clock.elapsed]
    /\ UNCHANGED <<clock, trackerVars, healthVars, rollupVars, nestVars, sinkVars, threadVars, apiVars>>

\* one tick passes
time_passes ==
    /\ clock.elapsed < MaxTicks
    /\ clock' = Clock(clock.wall + 1, clock.elapsed + 1)
    /\ UNCHANGED <<timed, trackerVars, healthVars, rollupVars, nestVars, sinkVars, threadVars, apiVars>>

\* the system clock is set (by NTP, by an administrator): it is stepped by d
clock_adjusted(d) ==
    /\ clock.wall + d \in -MaxTicks..(2 * MaxTicks)
    /\ clock' = Clock(clock.wall + d, clock.elapsed)
    /\ UNCHANGED <<timed, trackerVars, healthVars, rollupVars, nestVars, sinkVars, threadVars, apiVars>>

InitClock == Init

NextClock ==
    \/ \E form \in TimedForms : timed_enters(form)
    \/ timed_ends
    \/ time_passes
    \/ \E d \in Adjustments : clock_adjusted(d)

SpecClock == InitClock /\ [][NextClock]_vars

\* C28: the duration a tracker observes is never negative and is the time
\* that passed while its unit of work ran, also when the wall clock was
\* stepped backwards or forwards meanwhile.
C28_MonotonicDuration ==
    timed.pc = "done" =>
        /\ timed.duration >= 0
        /\ timed.duration = timed.left - timed.entered


(***************************************************************************)
(* SpecStop: stop_server called by several threads.  stop_server tests     *)
(* self.server, then reads it again for .shutdown(), again for             *)
(* .server_close(), and assigns None; HealthChecker has no lock, so the     *)
(* steps of two calls interleave.  The caller threads call stop_server (or *)
(* ScrapingContext.shutdown, which logs and calls it); the listener thread *)
(* calls it from a check function, inside the handler of a GET /health.    *)
(* BaseServer.shutdown() asks serve_forever to end and waits until it has: *)
(* it returns at once when the loop has ended already, and waits for ever  *)
(* when it is called on the thread that runs serve_forever.                *)
(***************************************************************************)
\* a stop_server call at pc; for a call that raised, name is the exception
StopCall(pc, name) == ThreadCall("stop_server", name, pc, 0, 0, 0, <<>>, <<>>, "-")

\* the thread is not inside a call that can still take a step
Finished(t) == thr[t].pc \in {"idle", "returned", "raised"}

stop_step(t, call) ==
    /\ thr' = [thr EXCEPT ![t] = call]
    /\ UNCHANGED <<trackerVars, rollupVars, nestVars, sinkVars, clockVars, apiVars>>
    /\ UNCHANGED <<heap, checks, mainPc, hcall, report, response, sampler>>

\* a thread calls HealthChecker.stop_server; on the listener thread the
\* call is made by a check function, so the listener serves
stop_server_called(t) ==
    /\ Finished(t)
    /\ hist.calls < MaxCalls
    /\ t = Listener => server = "serving"
    /\ stop_step(t, StopCall("test", "-"))
    /\ hist' = [hist EXCEPT !.calls = @ + 1]
    /\ UNCHANGED <<server, ctxLog>>

\* a caller thread calls ScrapingContext.shutdown, which logs and calls
\* stop_server
shutdown_called(t) ==
    /\ Finished(t)
    /\ hist.calls < MaxCalls
    /\ ctxLog' = "Shutting down scraping context"
    /\ stop_step(t, StopCall("test", "-"))
    /\ hist' = [hist EXCEPT !.calls = @ + 1]
    /\ UNCHANGED server

\* `if self.server:`
stop_server_test(t) ==
    /\ thr[t].op = "stop_server" /\ thr[t].pc = "test"
    /\ stop_step(t, StopCall(IF server = "None" THEN "returned" ELSE "shutdown", "-"))
    /\ UNCHANGED <<server, hist, ctxLog>>

\* self.server.shutdown(): self.server is read again; shutdown() returns
\* when serve_forever has ended, which it cannot while it runs this call
stop_server_shutdown(t) ==
    /\ thr[t].op = "stop_server" /\ thr[t].pc = "shutdown"
    /\ t # Listener => thr[Listener].pc \notin {"test", "shutdown"}
    /\ IF server = "None"
       THEN /\ stop_step(t, StopCall("raised", "AttributeError"))
            /\ UNCHANGED server
       ELSE IF t = Listener \/ thr[Listener].pc = "blocked"
       THEN /\ stop_step(t, StopCall("blocked", "-"))
            /\ UNCHANGED server
       ELSE /\ stop_step(t, StopCall("server_close", "-"))
            /\ server' = "stopped"
    /\ UNCHANGED <<hist, ctxLog>>

\* self.server.server_close(): self.server is read again; closing a closed
\* socket does nothing
stop_server_close(t) ==
    /\ thr[t].op = "stop_server" /\ thr[t].pc = "server_close"
    /\ IF server = "None"
       THEN stop_step(t, StopCall("raised", "AttributeError"))
       ELSE stop_step(t, StopCall("store", "-"))
    /\ UNCHANGED <<server, hist, ctxLog>>

\* self.server = None, and stop_server returns
stop_server_store(t) ==
    /\ thr[t].op = "stop_server" /\ thr[t].pc = "store"
    /\ server' = "None"
    /\ stop_step(t, StopCall("returned", "-"))
    /\ UNCHANGED <<hist, ctxLog>>

InitStop == InitThreads

NextStop ==
    \/ \E t \in Threads : stop_server_called(t)
    \/ \E t \in Callers : shutdown_called(t)
    \/ \E t \in Threads : stop_server_test(t)
    \/ \E t \in Threads : stop_server_shutdown(t)
    \/ \E t \in Threads : stop_server_close(t)
    \/ \E t \in Threads : stop_server_store(t)

SpecStop == InitStop /\ [][NextStop]_vars

\* C32: stop_server is safe under concurrent callers: whether two threads
\* call it at the same time or a check function calls it on the listener
\* thread, no call raises, no call waits for ever, and once every call has
\* returned the server field is None.
C32_StopServerSafe ==
    /\ \A t \in Threads : thr[t].pc \notin {"raised", "blocked"}
    /\ (hist.calls > 0 /\ \A t \in Threads : Finished(t)) => server = "None"


(***************************************************************************)
(* SpecHandling: with_error_handling.  The wrapper calls func inside       *)
(* `try: ... except error_types as e:`; the except clause takes an         *)
(* exception that is an instance of one of error_types, logs it if a       *)
(* logger was given, counts it if metrics were given, and raises it again  *)
(* or returns None.                                                        *)
(***************************************************************************)
\* the classes an exception of class cls is an instance of
Bases(cls) ==
    CASE cls = "ValueError" -> {"ValueError", "Exception", "BaseException"}
      [] cls = "KeyboardInterrupt" -> {"KeyboardInterrupt", "BaseException"}
      [] cls = "GeneratorExit" -> {"GeneratorExit", "BaseException"}
      [] OTHER -> {cls, "Exception", "BaseException"}

\* the error_types argument: its default (Exception,), and other tuples
ErrorTypes == {{"Exception"}, {"ValueError"}, {"KeyError"}, {"KeyError", "ValueError"}, {}}

\* `except error_types as e` takes e
caught(error_types, e) == Bases(e.cls) \cap error_types # {}

\* operation_name = func.__name__
FuncName == "func"

\* a wrapper that raises what it caught whatever reraise is
with_error_handling_always_raises(h, out) ==
    IF out.t = "return" THEN Exit(<<>>, Returned(out.v))
    ELSE IF caught(h.error_types, out.exc)
    THEN Exit((IF h.lg THEN <<LogEv("error", out.exc.cls, out.exc.msg)>> ELSE <<>>)
                \o (IF h.mt THEN <<record_error(out.exc.cls, FuncName)>> ELSE <<>>),
              Raised(out.exc))
    ELSE Exit(<<>>, Raised(out.exc))

\* the wrapper of with_error_handling once func has returned or raised
with_error_handling_exit(h, out) ==
    IF out.t = "return" THEN Exit(<<>>, Returned(out.v))
    ELSE IF caught(h.error_types, out.exc)
    THEN Exit((IF h.lg THEN <<LogEv("error", out.exc.cls, out.exc.msg)>> ELSE <<>>)
                \o (IF h.mt THEN <<record_error(out.exc.cls, FuncName)>> ELSE <<>>),
              IF h.reraise THEN Raised(out.exc) ELSE Returned(RNone))
    ELSE Exit(<<>>, Raised(out.exc))

handling_step(h) ==
    /\ handled' = h
    /\ UNCHANGED <<scope, defaults>>
    /\ UNCHANGED <<trackerVars, healthVars, rollupVars, nestVars, sinkVars, threadVars, clockVars>>

\* the decorated function is called: the wrapper calls func
with_error_handling_call(error_types, lg, mt, reraise) ==
    /\ handled = NoHandled
    /\ handling_step(Handled(error_types, lg, mt, reraise, "func", <<>>, NoOutcome, NoOutcome))

func_ends(out) ==
    /\ handled.pc = "func"
    /\ LET x == with_error_handling_exit(handled, out)
       IN  handling_step([handled EXCEPT !.pc = "done", !.rec = x.rec, !.body = out,
                                         !.caller = x.caller])

\* func returns result
func_returns(result) == func_ends(Returned(result))

\* func raises e
func_raises(e) == func_ends(Raised(e))

\* the caller of the wrapper has taken its outcome
handled_taken ==
    /\ handled.pc = "done"
    /\ handling_step(NoHandled)

InitHandling == Init

NextHandling ==
    \/ \E error_types \in ErrorTypes, lg \in BOOLEAN, mt \in BOOLEAN, reraise \in BOOLEAN :
           with_error_handling_call(error_types, lg, mt, reraise)
    \/ \E result \in Results : func_returns(result)
    \/ \E e \in BodyExcs : func_raises(e)
    \/ handled_taken

SpecHandling == InitHandling /\ [][NextHandling]_vars

\* what the caller receives, and that nothing was recorded, when the wrapper
\* does not take what func did
PassedThrough(h) == h.rec = <<>> /\ h.caller = h.body

\* C36 as stated: with_error_handling records exactly one error, one error
\* log and one error-counter increment, for an exception that error_types
\* takes, and then raises it again when reraise is true, or returns None
\* when reraise is false; an exception error_types does not take propagates
\* with nothing recorded; a normal return records nothing.
C36_OneErrorRecorded ==
    handled.pc = "done" =>
        IF handled.body.t = "raise" /\ caught(handled.error_types, handled.body.exc)
        THEN /\ handled.rec = <<LogEv("error", handled.body.exc.cls, handled.body.exc.msg),
                                record_error(handled.body.exc.cls, FuncName)>>
             /\ handled.caller = IF handled.reraise THEN Raised(handled.body.exc)
                                 ELSE Returned(RNone)
        ELSE PassedThrough(handled)

\* C36 amended: for an exception that error_types takes, with_error_handling
\* records one error log if it was given a logger and one error-counter
\* increment if it was given metrics (it is given neither by default, and
\* then records nothing), in that order and nothing else, and then raises
\* the exception again when reraise is true, or returns None when reraise
\* is false; an exception error_types does not take propagates with nothing
\* recorded; a normal return records nothing and returns what func returned.
C36_OneErrorPerSink ==
    handled.pc = "done" =>
        IF handled.body.t = "raise" /\ caught(handled.error_types, handled.body.exc)
        THEN /\ handled.rec =
                    (IF handled.lg
                     THEN <<LogEv("error", handled.body.exc.cls, handled.body.exc.msg)>>
                     ELSE <<>>)
                    \o (IF handled.mt
                        THEN <<record_error(handled.body.exc.cls, FuncName)>> ELSE <<>>)
             /\ handled.caller = IF handled.reraise THEN Raised(handled.body.exc)
                                 ELSE Returned(RNone)
        ELSE PassedThrough(handled)

\* an exception was logged, counted and swallowed
C36_Witness ==
    /\ handled.pc = "done"
    /\ handled.error_types = {"KeyError", "ValueError"}
    /\ handled.body = Raised(Exc("ValueError", "boom"))
    /\ Len(handled.rec) = 2
    /\ handled.caller = Returned(RNone)


(***************************************************************************)
(* SpecScope: a ScrapingContext used as a with-block.  __enter__ returns   *)
(* the context; when the body has ended, __exit__ logs how it ended, calls *)
(* self.shutdown() and returns None, so the with statement raises what     *)
(* the body raised.  shutdown logs and calls stop_server, which waits for  *)
(* ever on a server whose serve_forever never ran.                         *)
(***************************************************************************)
\* an __exit__ that takes for an error only what is an Exception
exit_log_of_exceptions(out) ==
    IF out.t = "raise" /\ IsException(out.exc)
    THEN LogEv("Scraping context exiting with error", out.exc.cls, out.exc.msg)
    ELSE LogEv("Scraping context completed successfully", "-", "-")

\* __exit__: `if exc_type:` logs the error, else the success
exit_log(out) ==
    IF out.t = "raise"
    THEN LogEv("Scraping context exiting with error", out.exc.cls, out.exc.msg)
    ELSE LogEv("Scraping context completed successfully", "-", "-")

\* what the body of the with-block may raise
ScopeExcs == BodyExcs \cup {Exc("SystemExit", "")}

scope_step(sc) ==
    /\ scope' = sc
    /\ UNCHANGED <<handled, defaults>>
    /\ UNCHANGED <<checks, hcall, report, response, sampler>>
    /\ UNCHANGED <<trackerVars, rollupVars, nestVars, sinkVars, threadVars, clockVars>>

\* `with context:` calls __enter__ and runs the body
scope_enter ==
    /\ scope.pc = "idle" /\ mainPc = "ready"
    /\ scope_step(Scope("body", NoOutcome, <<>>, 0, NoOutcome))
    /\ UNCHANGED <<server, mainPc, ctxLog>>

\* the body of the with-block ends: the with statement calls __exit__
scope_body_ends(out) ==
    /\ scope.pc = "body"
    /\ scope_step([scope EXCEPT !.pc = "exit", !.body = out])
    /\ UNCHANGED <<server, mainPc, ctxLog>>

\* while the body runs, the listener thread ends (a check function raised
\* past run_checks, as in do_GET_health)
scope_listener_ends ==
    /\ scope.pc = "body" /\ server = "serving"
    /\ server' = "dead"
    /\ scope_step(scope)
    /\ UNCHANGED <<mainPc, ctxLog>>

\* __exit__ logs how the body ended
scope_exit_logs ==
    /\ scope.pc = "exit"
    /\ scope_step([scope EXCEPT !.pc = "shutdown", !.rec = Append(@, exit_log(scope.body))])
    /\ ctxLog' = exit_log(scope.body).s
    /\ UNCHANGED <<server, mainPc>>

\* __exit__ calls self.shutdown(), which logs and calls stop_server; when
\* stop_server returns, __exit__ returns None and the with statement ends
\* as its body ended
scope_exit_shutdown ==
    /\ scope.pc = "shutdown"
    /\ ctxLog' = "Shutting down scraping context"
    /\ IF server = "bound"
       THEN /\ mainPc' = "blocked"
            /\ UNCHANGED server
            /\ scope_step([scope EXCEPT !.pc = "blocked", !.shutdowns = @ + 1,
                   !.rec = Append(@, LogEv("Shutting down scraping context", "-", "-"))])
       ELSE /\ server' = "None"
            /\ UNCHANGED mainPc
            /\ scope_step([scope EXCEPT !.pc = "done", !.shutdowns = @ + 1,
                   !.rec = Append(@, LogEv("Shutting down scraping context", "-", "-")),
                   !.caller = scope.body])

\* the program goes on after the with statement
scope_left ==
    /\ scope.pc = "done"
    /\ scope_step(NoScope)
    /\ UNCHANGED <<server, mainPc, ctxLog>>

InitScope == InitHealth

NextScope ==
    \/ scope_enter
    \/ scope_body_ends(Returned(RNone))
    \/ \E e \in ScopeExcs : scope_body_ends(Raised(e))
    \/ scope_listener_ends
    \/ scope_exit_logs
    \/ scope_exit_shutdown
    \/ scope_left

SpecScope == InitScope /\ [][NextScope]_vars

\* the exit events among the records of the with-block
ExitEvents(sc) ==
    SelectSeq(sc.rec, LAMBDA ev : ev.s \in {"Scraping context exiting with error",
                                            "Scraping context completed successfully"})

\* C37: leaving a ScrapingContext used as a with-block calls shutdown
\* exactly once, whether the body completed or raised, logs exactly one exit
\* event, the error with what the body raised or the success accordingly,
\* and does not suppress the exception of the body: the with statement ends
\* as its body ended.
C37_LeavingShutsDownOnce ==
    /\ scope.pc \in {"body", "exit"} => scope.shutdowns = 0 /\ ExitEvents(scope) = <<>>
    /\ scope.pc \in {"shutdown", "blocked", "done"} =>
          /\ scope.shutdowns = IF scope.pc = "shutdown" THEN 0 ELSE 1
          /\ ExitEvents(scope) =
                <<IF scope.body.t = "raise"
                  THEN LogEv("Scraping context exiting with error",
                             scope.body.exc.cls, scope.body.exc.msg)
                  ELSE LogEv("Scraping context completed successfully", "-", "-")>>
    /\ scope.pc = "done" => scope.caller = scope.body /\ server = "None"

\* a with-block whose body was interrupted has been left
C37_Witness ==
    /\ scope.pc = "done"
    /\ scope.body = Raised(Exc("KeyboardInterrupt", ""))
    /\ scope.caller = scope.body
    /\ scope.shutdowns = 1
    /\ ctxLog = "Shutting down scraping context"


(***************************************************************************)
(* SpecDefaults: the process-wide defaults.  get_logger and                *)
(* get_metrics_registry test their module global for None, construct a     *)
(* ScraperLogger or a ScraperMetrics from a default MonitoringConfig when  *)
(* it is, assign it to the global, and return a view of what the global    *)
(* holds.  There is no lock: a step of a thread is one access to the       *)
(* global or one construction, and the steps of the threads interleave.    *)
(***************************************************************************)
Getters == {"get_logger", "get_metrics_registry"}

\* a call of a getter at pc; obj is the object it constructed, and once it
\* has returned the object its caller has a view of
GetterCall(getter, pc, obj) == ThreadCall(getter, "-", pc, 0, 0, obj, <<>>, <<>>, "-")

\* the global a getter works on, and the count of the objects of its class
global_of(getter) == IF getter = "get_logger" THEN "logger" ELSE "metrics"
count_of(getter) == IF getter = "get_logger" THEN "loggers" ELSE "registries"

getter_step(t, call) ==
    /\ thr' = [thr EXCEPT ![t] = call]
    /\ UNCHANGED <<handled, scope, heap>>
    /\ UNCHANGED <<trackerVars, healthVars, rollupVars, nestVars, sinkVars, clockVars>>

\* a thread calls get_logger() or get_metrics_registry()
getter_called(t, getter) ==
    /\ thr[t].pc \in {"idle", "returned"}
    /\ hist.calls < MaxCalls
    /\ getter_step(t, GetterCall(getter, "test", 0))
    /\ hist' = [hist EXCEPT !.calls = @ + 1]
    /\ UNCHANGED defaults

\* `if _default_logger is None:` (`if _default_metrics is None:`)
getter_test(t) ==
    /\ thr[t].op \in Getters /\ thr[t].pc = "test"
    /\ getter_step(t, [thr[t] EXCEPT !.pc =
           IF defaults[global_of(thr[t].op)] = 0 THEN "construct" ELSE "return"])
    /\ UNCHANGED <<defaults, hist>>

\* ScraperLogger(config) (ScraperMetrics(config)): one more object
getter_construct(t) ==
    /\ thr[t].op \in Getters /\ thr[t].pc = "construct"
    /\ defaults' = [defaults EXCEPT ![count_of(thr[t].op)] = @ + 1]
    /\ getter_step(t, [thr[t] EXCEPT !.pc = "store",
                                     !.obj = defaults[count_of(thr[t].op)] + 1])
    /\ UNCHANGED hist

\* the object is assigned to the global
getter_store(t) ==
    /\ thr[t].op \in Getters /\ thr[t].pc = "store"
    /\ defaults' = [defaults EXCEPT ![global_of(thr[t].op)] = thr[t].obj]
    /\ getter_step(t, [thr[t] EXCEPT !.pc = "return"])
    /\ UNCHANGED hist

\* `return _default_logger.get_logger()` (`_default_metrics.get_registry()`):
\* the global is read again, and the caller gets a view of what it holds
getter_return(t) ==
    /\ thr[t].op \in Getters /\ thr[t].pc = "return"
    /\ getter_step(t, [thr[t] EXCEPT !.pc = "returned",
                                     !.obj = defaults[global_of(thr[t].op)]])
    /\ UNCHANGED <<defaults, hist>>

\* the module is imported: both globals are None
InitDefaults ==
    /\ TrackerInit
    /\ HealthIdle
    /\ RollupIdle
    /\ ClockIdle
    /\ ApiIdle
    /\ heap = NoHeap
    /\ thr = [t \in Threads |-> NoThreadCall]
    /\ hist = History({}, {}, {}, 0, {})

NextDefaults ==
    \/ \E t \in Threads, getter \in Getters : getter_called(t, getter)
    \/ \E t \in Threads : getter_test(t)
    \/ \E t \in Threads : getter_construct(t)
    \/ \E t \in Threads : getter_store(t)
    \/ \E t \in Threads : getter_return(t)

SpecDefaults == InitDefaults /\ [][NextDefaults]_vars

\* C38: the process-wide defaults are initialised once on first use: in any
\* sequence of get_logger and get_metrics_registry calls, concurrent first
\* calls of several threads included, at most one default ScraperLogger and
\* at most one default ScraperMetrics are created, and every call returns a
\* view of that one instance.
C38_InitialisedOnce ==
    /\ defaults.loggers <= 1
    /\ defaults.registries <= 1
    /\ \A t \in Threads : thr[t].pc = "returned" => thr[t].obj = 1

====
